---- MODULE Spec2Model ----
(***************************************************************************)
(* State-machine model of the CRT simulation's per-tick update engine     *)
(* (src/src/simulation_program.rs, src/src/screen-sim/                    *)
(* simulation_main_functions.rs) and of its multi-pass compositing        *)
(* pipeline (draw in simulation_program.rs, SimulationDrawer::draw in     *)
(* display-sim-webgl-render/src/simulation_draw.rs).                      *)
(*                                                                         *)
(* Numbers.  f32 parameters are kept on a fixed-point grid.  One model    *)
(* time unit is 500 ms.  At the base change speed one time unit of        *)
(* progression is one grid unit of the parameter it progresses:           *)
(*   extra_bright, extra_contrast   1 unit = 0.1     (0.01 * dt * speed)  *)
(*   cur_pixel_scale_x/_y           1 unit = 0.0125  (... * 0.00125)      *)
(*   cur_pixel_width, cur_pixel_gap 1 unit = 0.05    (... * 0.005)        *)
(* Speeds are base * 2^k (the code only doubles and halves them) and are  *)
(* stored as the exponent k.                                               *)
(***************************************************************************)
EXTENDS Integers, Sequences, FiniteSets, TLC

VARIABLES
    input,      \* Input: raw flags, edge-tracked buttons, custom event, clock sample
    res,        \* Resources: timers, animation, crt_filters, camera, launch_screenshot
    loop,       \* the frame loop: which harness drives it, whether a frame is pending
    tick,       \* what the last run of the frame handler did (calls, notifications)
    stack,      \* main TextureBufferStack: cursor and pooled targets
    bg_stack,   \* background TextureBufferStack of SimulationDrawer
    frame,      \* the filter configuration a draw is running on
    dpc,        \* position of the running draw in its call sequence
    last_call   \* the last call of a function outside the frame loop: arguments, result

vars == <<input, res, loop, tick, stack, bg_stack, frame, dpc, last_call>>

(***************************************************************************)
(* Bounds of the model.                                                    *)
(***************************************************************************)
MaxTicks == 2       \* frames run per behaviour
MaxDt == 1          \* largest clock advance between two frames, in time units
MaxLpp == 2         \* largest lines-per-pixel count of the drawing specification
MaxBlur == 1        \* largest blur pass count of the drawing specification
MaxFrames == 2      \* draws run per behaviour of the drawing specification

(***************************************************************************)
(* Helpers.                                                                *)
(***************************************************************************)
RECURSIVE Pow2(_)
Pow2(n) == IF n <= 0 THEN 1 ELSE 2 * Pow2(n - 1)

\* x * 2^k on the grid (a halved sub-unit step rounds down)
ScaleBySpeed(x, k) == IF k >= 0 THEN x * Pow2(k) ELSE x \div Pow2(0 - k)

\* Rust's saturating `f64 as usize` on the integer payloads the model sends
AsUsize(n) == IF n < 0 THEN 0 ELSE n

RECURSIVE Count(_, _)
Count(s, x) == IF s = <<>> THEN 0
               ELSE (IF Head(s) = x THEN 1 ELSE 0) + Count(Tail(s), x)

(***************************************************************************)
(* EdgeTracker (BooleanButton): previous and current sample of a button.   *)
(***************************************************************************)
NewButton == [input |-> FALSE, previous |-> FALSE, current |-> FALSE]

track_input(b) == [input |-> b.input, previous |-> b.current, current |-> b.input]

is_just_pressed(b) == ~b.previous /\ b.current

\* a faulty is_just_released that holds whenever the button is up
is_just_released_or_idle(b) == ~b.current

is_just_released(b) == b.previous /\ ~b.current

is_activated(b) == b.current

(***************************************************************************)
(* Input.                                                                  *)
(***************************************************************************)
\* a faulty pre_process_input that forgets the screenshot button
PreProcessTracks_forgetful ==
    << "toggle_pixels_shadow_kind", "speed_up", "speed_down", "mouse_click",
       "increase_blur", "decrease_blur", "increase_lpp", "decrease_lpp",
       "next_color_representation_kind", "next_pixel_geometry_kind",
       "next_layering_kind", "showing_pixels_pulse", "esc", "space" >>

\* a faulty pre_process_input that tracks the blur-increase button twice
PreProcessTracks_twice ==
    << "toggle_pixels_shadow_kind", "speed_up", "speed_down", "mouse_click",
       "increase_blur", "increase_blur", "decrease_blur", "increase_lpp", "decrease_lpp",
       "next_color_representation_kind", "next_pixel_geometry_kind",
       "next_layering_kind", "showing_pixels_pulse", "esc", "space",
       "screenshot" >>

\* the buttons pre_process_input tracks, in the order it tracks them
PreProcessTracks ==
    << "toggle_pixels_shadow_kind", "speed_up", "speed_down", "mouse_click",
       "increase_blur", "decrease_blur", "increase_lpp", "decrease_lpp",
       "next_color_representation_kind", "next_pixel_geometry_kind",
       "next_layering_kind", "showing_pixels_pulse", "esc", "space",
       "screenshot" >>

\* the BooleanButton fields of Input
ButtonNames ==
    { "toggle_pixels_shadow_kind", "speed_up", "speed_down", "mouse_click",
      "increase_blur", "decrease_blur", "increase_lpp", "decrease_lpp",
      "next_color_representation_kind", "next_pixel_geometry_kind",
      "next_layering_kind", "showing_pixels_pulse", "esc", "space", "screenshot" }

\* the plain boolean fields of Input
FlagNames ==
    { "increase_bright", "decrease_bright", "increase_contrast", "decrease_contrast",
      "increase_pixel_scale_x", "decrease_pixel_scale_x",
      "increase_pixel_scale_y", "decrease_pixel_scale_y",
      "increase_pixel_gap", "decrease_pixel_gap", "shift", "alt",
      "input_focused", "reset_filters", "reset_speeds", "reset_position",
      "increase_camera_zoom", "decrease_camera_zoom" }

NoEvent == [kind |-> "", is_number |-> TRUE, num |-> 0]

InputNew ==
    [ now |-> 0,
      button |-> [b \in ButtonNames |-> NewButton],
      flags |-> {},
      custom_event |-> NoEvent,
      mouse_scroll_y |-> 0,
      mouse_position_x |-> 0,
      mouse_position_y |-> 0 ]

Flag(in, f) == f \in in.flags

\* no call made yet; held is the Input on_button_action works on, which
\* starts as Input::new leaves it, all fields false; before is that Input
\* as on_button_action found it and, for calculate_far_away_position, the
\* call made before this one
NoCall ==
    [n |-> 0, fn |-> "", args |-> <<>>, before |-> {}, result |-> {}, held |-> {}, down |-> {}]

\* the last call returned to its caller: only calculate_far_away_position
\* has loops, and a call that never returns is the last one made
CameBack == last_call.fn = "calculate_far_away_position" => last_call.result.returns

JustPressed(in, b) == is_just_pressed(in.button[b])

JustReleased(in, b) == is_just_released(in.button[b])

Activated(in, b) == is_activated(in.button[b])

(***************************************************************************)
(* Resources.                                                              *)
(***************************************************************************)
\* CrtFilters::new(PIXEL_MANIPULATION_BASE_SPEED), with cur_pixel_width set to
\* the animation's pixel_width (1.0) as load_resources does
CrtFiltersNew ==
    [ blur_passes |-> 1,
      lines_per_pixel |-> 1,
      light_color |-> 16777215,
      brightness_color |-> 16777215,
      extra_bright |-> 0,
      extra_contrast |-> 10,
      cur_pixel_width |-> 20,
      cur_pixel_scale_x |-> 0,
      cur_pixel_scale_y |-> 0,
      cur_pixel_gap |-> 0,
      change_speed |-> 0,
      pixels_pulse |-> 0,
      showing_pixels_pulse |-> FALSE,
      pixels_geometry_kind |-> "Squares",
      pixel_shadow_kind |-> 1,
      color_channels |-> "Combined",
      layering_kind |-> "ShadowWithSolidBackground75",
      showing_diffuse_foreground |-> TRUE,
      showing_solid_background |-> TRUE,
      solid_color_weight |-> 75 ]

\* the camera vectors, keyed by the custom event that sets each component:
\* position (0, 0, initial_position_z), direction (0, 0, -1), up axis (0, 1, 0)
InitialPose ==
    [ k \in { "event_kind:camera_pos_x", "event_kind:camera_pos_y", "event_kind:camera_pos_z",
              "event_kind:camera_axis_up_x", "event_kind:camera_axis_up_y",
              "event_kind:camera_axis_up_z", "event_kind:camera_direction_x",
              "event_kind:camera_direction_y", "event_kind:camera_direction_z" } |->
        CASE k = "event_kind:camera_pos_z" -> 175
          [] k = "event_kind:camera_direction_z" -> -1
          [] k = "event_kind:camera_axis_up_y" -> 1
          [] OTHER -> 0 ]

\* load_resources: the state after construction
ResourcesNew ==
    [ timers |-> [frame_count |-> 0, last_time |-> 0, last_second |-> 0],
      animation |-> [current_frame |-> 0, last_frame_change |-> 0,
                     frame_length |-> 2, steps_len |-> 2,
                     needs_buffer_data_load |-> FALSE],
      crt_filters |-> CrtFiltersNew,
      camera |-> [turning_speed |-> 0, movement_speed |-> 0, zoom |-> 45, drags |-> 0,
                  pose |-> InitialPose],
      launch_screenshot |-> FALSE ]

(***************************************************************************)
(* The update context: the Resources being mutated through `&mut`, the     *)
(* notifications dispatched so far, the buttons whose edge predicates were *)
(* read so far, whether update returned Err (`?`), and whether it returned *)
(* Ok(false).  A failed step keeps every mutation made before it.          *)
(***************************************************************************)
NewContext(rs) == [res |-> rs, events |-> <<>>, reads |-> {}, err |-> FALSE, cont |-> TRUE]

\* dispatch_event / dispatch_event_with: one notification to the host
dispatch_event_with(c, id, msg, val) ==
    [c EXCEPT !.events = Append(@, [id |-> id, msg |-> msg, val |-> val])]

top_message(c, msg, val) == dispatch_event_with(c, "app-event.top_message", msg, val)

\* `.ok_or("it should be a number")?` on a payload that is no number
Fail(c) == [c EXCEPT !.err = TRUE]

Read(c, buttons) == [c EXCEPT !.reads = @ \cup buttons]

SetFilter(c, field, v) == [c EXCEPT !.res.crt_filters[field] = v]

\* a failed (`?`) or terminated (`return Ok(false)`) step ends update: the
\* steps after it are skipped
Stopped(c) == c.err \/ ~c.cont

\* the value of a step, bound once
Only(S) == CHOOSE r \in S : TRUE

update_timers_and_dt(c, in) ==
    LET t == c.res.timers
        ellapsed == in.now - t.last_second
    IN  IF ellapsed >= 2    \* 1_000.0 ms
        THEN dispatch_event_with(
                 [c EXCEPT !.res.timers = [frame_count |-> 0, last_time |-> in.now,
                                           last_second |-> in.now]],
                 "app-event.fps", "", t.frame_count)
        ELSE [c EXCEPT !.res.timers = [frame_count |-> t.frame_count + 1,
                                       last_time |-> in.now,
                                       last_second |-> t.last_second]]

\* dt, in time units: (input.now - res.timers.last_time) / 1000.0
delta_time(rs, in) == in.now - rs.timers.last_time

\* a faulty update_animation_buffer that flags a reload on every elapsed delay
update_animation_buffer_always_loads(c, in) ==
    LET a == c.res.animation
        next_frame_update == a.last_frame_change + a.frame_length
        stepped == IF a.current_frame + 1 >= a.steps_len THEN 0 ELSE a.current_frame + 1
    IN  IF in.now >= next_frame_update
        THEN [c EXCEPT !.res.animation =
                 [a EXCEPT !.last_frame_change = next_frame_update,
                           !.current_frame = stepped,
                           !.needs_buffer_data_load = TRUE]]
        ELSE [c EXCEPT !.res.animation.needs_buffer_data_load = FALSE]

update_animation_buffer(c, in) ==
    LET a == c.res.animation
        next_frame_update == a.last_frame_change + a.frame_length
        stepped == IF a.current_frame + 1 >= a.steps_len THEN 0 ELSE a.current_frame + 1
    IN  IF in.now >= next_frame_update
        THEN [c EXCEPT !.res.animation =
                 [a EXCEPT !.last_frame_change = next_frame_update,
                           !.current_frame = stepped,
                           !.needs_buffer_data_load = (a.current_frame # stepped)]]
        ELSE [c EXCEPT !.res.animation.needs_buffer_data_load = FALSE]

\* one of the two progressed colour scalars of update_colors: the
\* increase / decrease / clamp-or-notify block (lines 243-259 and 260-276)
progress_color(c, in, field, inc, dec, velocity, min, max, min_msg, max_msg, event_id) ==
    LET v0 == c.res.crt_filters[field]
        v1 == IF Flag(in, inc) THEN v0 + velocity ELSE v0
        v2 == IF Flag(in, dec) THEN v1 - velocity ELSE v1
    IN  IF Flag(in, inc) \/ Flag(in, dec)
        THEN IF v2 < min THEN top_message(SetFilter(c, field, min), min_msg, 0)
             ELSE IF v2 > max THEN top_message(SetFilter(c, field, max), max_msg, 0)
             ELSE dispatch_event_with(SetFilter(c, field, v2), event_id, "", v2)
        ELSE c

update_colors(dt, c, in) ==
    LET velocity == ScaleBySpeed(dt, c.res.crt_filters.change_speed)
        c1 == progress_color(c, in, "extra_bright", "increase_bright", "decrease_bright",
                             velocity, -10, 10, "Minimum value is -1.0",
                             "Maximum value is +1.0", "app-event.change_pixel_brightness")
        c2 == progress_color(c1, in, "extra_contrast", "increase_contrast",
                             "decrease_contrast", velocity, 0, 200,
                             "Minimum value is 0.0", "Maximum value is 20.0",
                             "app-event.change_pixel_contrast")
        ev == in.custom_event
        color_variable == IF ev.kind = "event_kind:light_color" THEN "light_color"
                          ELSE "brightness_color"
    IN  CASE ev.kind = "event_kind:pixel_brightness" ->
                IF ev.is_number THEN SetFilter(c2, "extra_bright", ev.num * 10) ELSE Fail(c2)
          [] ev.kind = "event_kind:pixel_contrast" ->
                IF ev.is_number THEN SetFilter(c2, "extra_contrast", ev.num * 10) ELSE Fail(c2)
          [] ev.kind \in {"event_kind:light_color", "event_kind:brightness_color"} ->
                IF ~ev.is_number THEN Fail(c2)
                ELSE IF ev.num # c2.res.crt_filters[color_variable]
                     THEN top_message(SetFilter(c2, color_variable, ev.num), "Color changed.", 0)
                     ELSE c2
          [] OTHER -> c2

\* a faulty update_blur that steps the level up without telling anyone and
\* ignores the decrease edge
update_blur_silent(c, in) ==
    LET p == c.res.crt_filters.blur_passes
        q == IF JustPressed(in, "increase_blur") THEN p + 1 ELSE p
    IN  SetFilter(Read(c, {"increase_blur", "decrease_blur"}), "blur_passes", q)

update_blur(c, in) ==
    LET last_blur_passes == c.res.crt_filters.blur_passes
        dec == JustPressed(in, "decrease_blur")
        p1 == IF JustPressed(in, "increase_blur") THEN last_blur_passes + 1
              ELSE last_blur_passes
        p2 == IF dec /\ p1 > 0 THEN p1 - 1 ELSE p1
        c1 == Read(IF dec /\ ~(p1 > 0) THEN top_message(c, "Minimum value is 0", 0) ELSE c,
                   {"increase_blur", "decrease_blur"})
        ev == in.custom_event
        is_ev == ev.kind = "event_kind:blur_level"
        p3 == IF is_ev THEN AsUsize(ev.num) ELSE p2
        c2 == IF is_ev THEN dispatch_event_with(c1, "app-event.change_blur_level", "", p3)
              ELSE c1
        p4 == IF p3 > 100 THEN 100 ELSE p3
        c3 == IF p3 > 100 THEN top_message(c2, "Maximum value is 100", 0) ELSE c2
        c4 == IF last_blur_passes # p4
              THEN dispatch_event_with(top_message(c3, "Blur level: ", p4),
                                       "app-event.change_blur_level", "", p4)
              ELSE c3
    IN  IF is_ev /\ ~ev.is_number
        THEN Fail(SetFilter(c1, "blur_passes", p2))
        ELSE SetFilter(c4, "blur_passes", p4)

update_lpp(c, in) ==
    LET last_lpp == c.res.crt_filters.lines_per_pixel
        p1 == IF JustPressed(in, "increase_lpp") THEN last_lpp + 1 ELSE last_lpp
        p2 == IF JustPressed(in, "decrease_lpp") /\ p1 > 0 THEN p1 - 1 ELSE p1
        c1 == Read(c, {"increase_lpp", "decrease_lpp"})
        ev == in.custom_event
        is_ev == ev.kind = "event_kind:lines_per_pixel"
        p3 == IF is_ev THEN AsUsize(ev.num) ELSE p2
        c2 == IF is_ev THEN dispatch_event_with(c1, "app-event.change_lines_per_pixel", "", p3)
              ELSE c1
        p4 == IF p3 < 1 THEN 1 ELSE IF p3 > 20 THEN 20 ELSE p3
        c3 == IF p3 < 1 THEN top_message(c2, "Minimum value is 1", 0)
              ELSE IF p3 > 20 THEN top_message(c2, "Maximum value is 20", 0)
              ELSE c2
        c4 == IF last_lpp # p4
              THEN dispatch_event_with(top_message(c3, "Lines per pixel: ", p4),
                                       "app-event.change_lines_per_pixel", "", p4)
              ELSE c3
    IN  IF is_ev /\ ~ev.is_number
        THEN Fail(SetFilter(c1, "lines_per_pixel", p2))
        ELSE SetFilter(c4, "lines_per_pixel", p4)

\* a faulty update_pixel_pulse that keeps the accumulator when the wave is off
update_pixel_pulse_keeps(dt, c, in) ==
    LET toggled == JustPressed(in, "showing_pixels_pulse")
        showing == IF toggled THEN ~c.res.crt_filters.showing_pixels_pulse
                   ELSE c.res.crt_filters.showing_pixels_pulse
        c1 == Read(c, {"showing_pixels_pulse"})
        c2 == IF toggled
              THEN dispatch_event_with(
                       top_message(c1, IF showing THEN "Screen wave ON." ELSE "Screen wave OFF.", 0),
                       "app-event.showing_pixels_pulse", "", IF showing THEN 1 ELSE 0)
              ELSE c1
    IN  [c2 EXCEPT !.res.crt_filters.showing_pixels_pulse = showing,
                   !.res.crt_filters.pixels_pulse = IF showing THEN @ + dt ELSE @]

update_pixel_pulse(dt, c, in) ==
    LET toggled == JustPressed(in, "showing_pixels_pulse")
        showing == IF toggled THEN ~c.res.crt_filters.showing_pixels_pulse
                   ELSE c.res.crt_filters.showing_pixels_pulse
        c1 == Read(c, {"showing_pixels_pulse"})
        c2 == IF toggled
              THEN dispatch_event_with(
                       top_message(c1, IF showing THEN "Screen wave ON." ELSE "Screen wave OFF.", 0),
                       "app-event.showing_pixels_pulse", "", IF showing THEN 1 ELSE 0)
              ELSE c1
    IN  [c2 EXCEPT !.res.crt_filters.showing_pixels_pulse = showing,
                   !.res.crt_filters.pixels_pulse = IF showing THEN @ + dt ELSE 0]

\* the notifications load_resources, reset_filters and reset_speeds send to
\* resynchronise the front end
change_frontend_input_values(c) ==
    LET f == c.res.crt_filters
        cam == c.res.camera
        sends == << <<"app-event.change_pixel_horizontal_gap", f.cur_pixel_scale_x>>,
                    <<"app-event.change_pixel_vertical_gap", f.cur_pixel_scale_y>>,
                    <<"app-event.change_pixel_width", f.cur_pixel_width>>,
                    <<"app-event.change_pixel_spread", f.cur_pixel_gap>>,
                    <<"app-event.change_pixel_brightness", f.extra_bright>>,
                    <<"app-event.change_pixel_contrast", f.extra_contrast>>,
                    <<"app-event.change_light_color", f.light_color>>,
                    <<"app-event.change_brightness_color", f.brightness_color>>,
                    <<"app-event.change_camera_zoom", cam.zoom>>,
                    <<"app-event.change_blur_level", f.blur_passes>>,
                    <<"app-event.change_lines_per_pixel", f.lines_per_pixel>>,
                    <<"app-event.change_movement_speed", ScaleBySpeed(1, cam.movement_speed)>>,
                    <<"app-event.change_pixel_speed", ScaleBySpeed(1, f.change_speed)>>,
                    <<"app-event.change_turning_speed", ScaleBySpeed(1, cam.turning_speed)>> >>
    IN  [c EXCEPT !.events = @ \o [i \in DOMAIN sends |->
                                     [id |-> sends[i][1], msg |-> "", val |-> sends[i][2]]]]

\* the variants of RenderLayers in declaration order (`as i32`)
RenderLayersOrder ==
    << "ShadowOnly", "SolidOnly", "ShadowWithSolidBackground75",
       "ShadowWithSolidBackground50", "ShadowWithSolidBackground25" >>

RenderLayersIndex(kind) == CHOOSE i \in DOMAIN RenderLayersOrder : RenderLayersOrder[i] = kind

\* pixels_render.shadows_len()
shadows_len == 3

\* a faulty next_layering_kind that leaves the solid weight of the last kind
next_layering_kind_keeps_weight(c) ==
    LET f == c.res.crt_filters
        kind == RenderLayersOrder[(RenderLayersIndex(f.layering_kind) % Len(RenderLayersOrder)) + 1]
    IN  top_message([c EXCEPT !.res.crt_filters.layering_kind = kind,
                              !.res.crt_filters.showing_diffuse_foreground = (kind # "SolidOnly"),
                              !.res.crt_filters.showing_solid_background = (kind # "ShadowOnly")],
                    kind, 0)

next_layering_kind(c) ==
    LET f == c.res.crt_filters
        kind == RenderLayersOrder[(RenderLayersIndex(f.layering_kind) % Len(RenderLayersOrder)) + 1]
        shadow == kind # "SolidOnly"
        solid == kind # "ShadowOnly"
        weight == CASE kind = "SolidOnly" -> 100
                    [] kind = "ShadowWithSolidBackground75" -> 75
                    [] kind = "ShadowWithSolidBackground50" -> 50
                    [] kind = "ShadowWithSolidBackground25" -> 25
                    [] OTHER -> f.solid_color_weight
    IN  top_message([c EXCEPT !.res.crt_filters.layering_kind = kind,
                              !.res.crt_filters.showing_diffuse_foreground = shadow,
                              !.res.crt_filters.showing_solid_background = solid,
                              !.res.crt_filters.solid_color_weight = weight],
                    kind, 0)

\* the match of lines 420-425 with SplitHorizontal going back to Combined
next_color_channels_short(k) ==
    CASE k = "Combined" -> "Overlapping"
      [] k = "Overlapping" -> "SplitHorizontal"
      [] k = "SplitHorizontal" -> "Combined"
      [] k = "SplitVertical" -> "Combined"

next_color_channels(k) ==
    CASE k = "Combined" -> "Overlapping"
      [] k = "Overlapping" -> "SplitHorizontal"
      [] k = "SplitHorizontal" -> "SplitVertical"
      [] k = "SplitVertical" -> "Combined"

\* units of a pixel-size grid in 1.0
PixelSizeUnits(field) ==
    IF field \in {"cur_pixel_scale_x", "cur_pixel_scale_y"} THEN 80 ELSE 20

change_pixel_sizes(c, in, increase, decrease, field, velocity, event_id, event_kind) ==
    LET before_size == c.res.crt_filters[field]
        s1 == IF increase THEN before_size + velocity ELSE before_size
        s2 == IF decrease THEN s1 - velocity ELSE s1
        ev == in.custom_event
        is_ev == ev.kind = event_kind
        s3 == IF is_ev THEN ev.num * PixelSizeUnits(field) ELSE s2
        s4 == IF s3 < 0 THEN 0 ELSE s3
        c1 == IF s3 < 0 THEN top_message(c, "Minimum value is 0.0", 0) ELSE c
    IN  IF is_ev /\ ~ev.is_number THEN Fail(SetFilter(c, field, s2))
        ELSE IF s3 # before_size
             THEN dispatch_event_with(SetFilter(c1, field, s4), event_id, "", s4)
             ELSE SetFilter(c, field, s3)

update_crt_filters(dt, c, in) ==
    LET focused == Flag(in, "input_focused")
        pixel_velocity == ScaleBySpeed(dt, c.res.crt_filters.change_speed)
        c1 == Only({ IF Stopped(x) THEN x ELSE
                  Read(IF ~focused /\ JustPressed(in, "next_layering_kind")
                       THEN next_layering_kind(x) ELSE x,
                       (IF focused THEN {} ELSE {"next_layering_kind"})
                           \cup {"next_color_representation_kind"}) : x \in {c} })
        c2 == Only({ IF Stopped(x) THEN x ELSE
                  IF JustPressed(in, "next_color_representation_kind")
                  THEN LET k == next_color_channels(x.res.crt_filters.color_channels)
                       IN  top_message(SetFilter(x, "color_channels", k), k, 0)
                  ELSE x : x \in {c1} })
        c3 == Only({ IF Stopped(x) THEN x ELSE
                  Read(IF JustReleased(in, "next_pixel_geometry_kind")
                       THEN LET g == IF x.res.crt_filters.pixels_geometry_kind = "Squares"
                                     THEN "Cubes" ELSE "Squares"
                            IN  dispatch_event_with(
                                    top_message(SetFilter(x, "pixels_geometry_kind", g), g, 0),
                                    "app-event.showing_pixels_as", g, 0)
                       ELSE x,
                       {"next_pixel_geometry_kind"}) : x \in {c2} })
        c4 == Only({ IF Stopped(x) THEN x ELSE
                  Read(IF ~focused /\ JustReleased(in, "toggle_pixels_shadow_kind")
                       THEN LET k == IF x.res.crt_filters.pixel_shadow_kind + 1 >= shadows_len
                                     THEN 0 ELSE x.res.crt_filters.pixel_shadow_kind + 1
                            IN  top_message(SetFilter(x, "pixel_shadow_kind", k),
                                            "Showing next pixel shadow: ", k)
                       ELSE x,
                       IF focused THEN {} ELSE {"toggle_pixels_shadow_kind"}) : x \in {c3} })
        c5 == Only({ IF Stopped(x) THEN x ELSE change_pixel_sizes(x, in, Flag(in, "increase_pixel_scale_x"),
                  Flag(in, "decrease_pixel_scale_x"), "cur_pixel_scale_x", pixel_velocity,
                  "app-event.change_pixel_vertical_gap", "event_kind:pixel_vertical_gap") : x \in {c4} })
        c6 == Only({ IF Stopped(x) THEN x ELSE change_pixel_sizes(x, in, Flag(in, "increase_pixel_scale_y"),
                  Flag(in, "decrease_pixel_scale_y"), "cur_pixel_scale_y", pixel_velocity,
                  "app-event.change_pixel_horizontal_gap", "event_kind:pixel_horizontal_gap") : x \in {c5} })
        c7 == Only({ IF Stopped(x) THEN x ELSE change_pixel_sizes(x, in,
                  Flag(in, "increase_pixel_gap") /\ ~Flag(in, "shift"),
                  Flag(in, "decrease_pixel_gap") /\ ~Flag(in, "shift"),
                  "cur_pixel_width", pixel_velocity,
                  "app-event.change_pixel_width", "event_kind:pixel_width") : x \in {c6} })
        c8 == Only({ IF Stopped(x) THEN x ELSE change_pixel_sizes(x, in,
                  Flag(in, "increase_pixel_gap") /\ Flag(in, "shift"),
                  Flag(in, "decrease_pixel_gap") /\ Flag(in, "shift"),
                  "cur_pixel_gap", pixel_velocity,
                  "app-event.change_pixel_spread", "event_kind:pixel_spread") : x \in {c7} })
    IN  IF Flag(in, "reset_filters")
        THEN top_message(
                 change_frontend_input_values([c EXCEPT !.res.crt_filters = CrtFiltersNew]),
                 "All filter options have been reset.", 0)
        ELSE c8

\* the three speeds: where each lives, and its base in thousandths
\* (TURNING_BASE_SPEED, PIXEL_MANIPULATION_BASE_SPEED, and
\* initial_movement_speed = MOVEMENT_BASE_SPEED * 174.58 / MOVEMENT_SPEED_FACTOR
\* for a 256 x 240 source)
SpeedBaseMilli(which) ==
    CASE which = "turning_speed" -> 3000
      [] which = "change_speed" -> 20000
      [] which = "movement_speed" -> 34916

GetSpeed(c, which) ==
    IF which = "change_speed" THEN c.res.crt_filters.change_speed ELSE c.res.camera[which]

SetSpeed(c, which, k) ==
    IF which = "change_speed" THEN [c EXCEPT !.res.crt_filters.change_speed = k]
    ELSE [c EXCEPT !.res.camera[which] = k]

\* base * 2^k < 10000.0
SpeedBelowMax(which, k) ==
    IF k >= 0 THEN SpeedBaseMilli(which) * Pow2(k) < 10000000 ELSE TRUE

\* base * 2^k > 0.01
SpeedAboveMin(which, k) ==
    IF k >= 0 THEN TRUE ELSE SpeedBaseMilli(which) > 10 * Pow2(0 - k)

change_speed(c, in, which, message, event_id) ==
    LET before_speed == GetSpeed(c, which)
        k1 == IF JustPressed(in, "speed_up") /\ SpeedBelowMax(which, before_speed)
              THEN before_speed + 1 ELSE before_speed
        k2 == IF JustPressed(in, "speed_down") /\ SpeedAboveMin(which, k1)
              THEN k1 - 1 ELSE k1
        c1 == Read(SetSpeed(c, which, k2), {"speed_up", "speed_down"})
    IN  IF k2 # before_speed
        THEN dispatch_event_with(top_message(c1, message, k2), event_id, "", k2)
        ELSE c1

\* update_speeds with the disabled call of its alt branch (line 488) enabled
update_speeds_alt_turns(c, in) ==
    LET c1 == IF Flag(in, "alt")
              THEN change_speed(c, in, "turning_speed", "Turning camera speed: ",
                                "app-event.change_turning_speed")
              ELSE IF Flag(in, "shift")
                   THEN change_speed(c, in, "change_speed", "Pixel manipulation speed: ",
                                     "app-event.change_pixel_speed")
                   ELSE change_speed(
                            change_speed(c, in, "turning_speed", "Turning camera speed: ",
                                         "app-event.change_turning_speed"),
                            in, "movement_speed", "Translation camera speed: ",
                            "app-event.change_movement_speed")
    IN  IF Flag(in, "reset_speeds")
        THEN change_frontend_input_values(
                 top_message([c1 EXCEPT !.res.camera.turning_speed = 0,
                                        !.res.camera.movement_speed = 0,
                                        !.res.crt_filters.change_speed = 0],
                             "All speeds have been reset.", 0))
        ELSE c1

\* update_speeds with the reset block (lines 509-515) ahead of the change_speed calls
update_speeds_reset_first(c, in) ==
    LET c0 == IF Flag(in, "reset_speeds")
              THEN change_frontend_input_values(
                       top_message([c EXCEPT !.res.camera.turning_speed = 0,
                                             !.res.camera.movement_speed = 0,
                                             !.res.crt_filters.change_speed = 0],
                                   "All speeds have been reset.", 0))
              ELSE c
    IN  IF Flag(in, "alt") THEN c0
        ELSE IF Flag(in, "shift")
             THEN change_speed(c0, in, "change_speed", "Pixel manipulation speed: ",
                               "app-event.change_pixel_speed")
             ELSE change_speed(
                      change_speed(c0, in, "turning_speed", "Turning camera speed: ",
                                   "app-event.change_turning_speed"),
                      in, "movement_speed", "Translation camera speed: ",
                      "app-event.change_movement_speed")

update_speeds(c, in) ==
    LET c1 == IF Flag(in, "alt") THEN c
              ELSE IF Flag(in, "shift")
                   THEN change_speed(c, in, "change_speed", "Pixel manipulation speed: ",
                                     "app-event.change_pixel_speed")
                   ELSE change_speed(
                            change_speed(c, in, "turning_speed", "Turning camera speed: ",
                                         "app-event.change_turning_speed"),
                            in, "movement_speed", "Translation camera speed: ",
                            "app-event.change_movement_speed")
    IN  IF Flag(in, "reset_speeds")
        THEN change_frontend_input_values(
                 top_message([c1 EXCEPT !.res.camera.turning_speed = 0,
                                        !.res.camera.movement_speed = 0,
                                        !.res.crt_filters.change_speed = 0],
                             "All speeds have been reset.", 0))
        ELSE c1

\* Camera::change_zoom: adjust, clamp to the valid range, notify
camera_change_zoom(c, change) ==
    LET raw == c.res.camera.zoom + change
        zoom == IF raw < 1 THEN 1 ELSE IF raw > 45 THEN 45 ELSE raw
        c1 == IF raw < 1 THEN top_message(c, "Minimum value is 1.0", 0)
              ELSE IF raw > 45 THEN top_message(c, "Maximum value is 45.0", 0)
              ELSE c
    IN  IF zoom # c.res.camera.zoom
        THEN dispatch_event_with([c1 EXCEPT !.res.camera.zoom = zoom],
                                 "app-event.change_camera_zoom", "", zoom)
        ELSE c1

\* the custom events that set one component of a camera vector
CameraVectorKinds ==
    { "event_kind:camera_pos_x", "event_kind:camera_pos_y", "event_kind:camera_pos_z",
      "event_kind:camera_axis_up_x", "event_kind:camera_axis_up_y",
      "event_kind:camera_axis_up_z", "event_kind:camera_direction_x",
      "event_kind:camera_direction_y", "event_kind:camera_direction_z" }

update_camera(dt, c, in) ==
    LET click == in.button["mouse_click"]
        c1 == Read(IF is_just_pressed(click)
                   THEN dispatch_event_with(c, "app-event.request_pointer_lock", "", 0)
                   ELSE IF is_activated(click)
                        THEN [c EXCEPT !.res.camera.drags = @ + 1]
                   ELSE IF is_just_released(click)
                        THEN dispatch_event_with(c, "app-event.exit_pointer_lock", "", 0)
                        ELSE c,
                   {"mouse_click"})
        c2 == IF Flag(in, "increase_camera_zoom") THEN camera_change_zoom(c1, dt * (-100))
              ELSE IF Flag(in, "decrease_camera_zoom") THEN camera_change_zoom(c1, dt * 100)
              ELSE IF in.mouse_scroll_y # 0 THEN camera_change_zoom(c1, in.mouse_scroll_y)
              ELSE c1
        ev == in.custom_event
        c3 == CASE ev.kind = "event_kind:camera_zoom" ->
                     IF ev.is_number THEN [c2 EXCEPT !.res.camera.zoom = ev.num] ELSE Fail(c2)
                [] ev.kind \in CameraVectorKinds ->
                     IF ev.is_number THEN [c2 EXCEPT !.res.camera.pose[ev.kind] = ev.num]
                     ELSE Fail(c2)
                [] OTHER -> c2
    IN  IF c3.err THEN c3
        ELSE IF Flag(in, "reset_position")
             THEN top_message(
                      dispatch_event_with(
                          [c3 EXCEPT !.res.camera.zoom = 45, !.res.camera.pose = InitialPose],
                          "app-event.change_camera_zoom", "", 45),
                      "The camera have been reset.", 0)
             ELSE c3

update_simulation(rs, in) ==
    LET dt == delta_time(rs, in)
        c0 == Only({ IF Stopped(x) THEN x ELSE update_timers_and_dt(x, in) : x \in {NewContext(rs)} })
        c1 == Only({ IF Stopped(x) THEN x ELSE update_animation_buffer(x, in) : x \in {c0} })
        c2 == Only({ IF Stopped(x) THEN x ELSE update_colors(dt, x, in) : x \in {c1} })
        c3 == Only({ IF Stopped(x) THEN x ELSE update_blur(x, in) : x \in {c2} })
        c4 == Only({ IF Stopped(x) THEN x ELSE update_lpp(x, in) : x \in {c3} })
        c5 == Only({ IF Stopped(x) THEN x ELSE
                  IF JustPressed(in, "esc")
                  THEN [Read(dispatch_event_with(x, "app-event.exiting_session", "", 0), {"esc"})
                            EXCEPT !.cont = FALSE]
                  ELSE Read(x, {"esc"}) : x \in {c4} })
        c6 == Only({ IF Stopped(x) THEN x ELSE
                  IF JustPressed(in, "space")
                  THEN Read(dispatch_event_with(x, "app-event.toggle_info_panel", "", 0), {"space"})
                  ELSE Read(x, {"space"}) : x \in {c5} })
        c7 == Only({ IF Stopped(x) THEN x ELSE update_pixel_pulse(dt, x, in) : x \in {c6} })
        c8 == Only({ IF Stopped(x) THEN x ELSE update_crt_filters(dt, x, in) : x \in {c7} })
        c9 == Only({ IF Stopped(x) THEN x ELSE update_speeds(x, in) : x \in {c8} })
        c10 == Only({ IF Stopped(x) THEN x ELSE update_camera(dt, x, in) : x \in {c9} })
    IN  Only({ IF Stopped(x) THEN x ELSE
            [Read(x, {"screenshot"}) EXCEPT !.res.launch_screenshot = JustReleased(in, "screenshot")] : x \in {c10} })

(***************************************************************************)
(* TextureBufferStack: a cursor over pooled render targets.  A popped      *)
(* target stays in the pool and is reused by the next push at its depth.   *)
(* pushes / pops count the calls of the running frame.                     *)
(***************************************************************************)
StackNew == [cursor |-> 0, pool |-> 0, pushes |-> 0, pops |-> 0, err |-> FALSE]

stack_push(st) ==
    [st EXCEPT !.cursor = @ + 1,
               !.pool = IF st.cursor + 1 > @ THEN st.cursor + 1 ELSE @,
               !.pushes = @ + 1]

stack_pop(st) ==
    IF st.cursor = 0 THEN [st EXCEPT !.err = TRUE]
    ELSE [st EXCEPT !.cursor = @ - 1, !.pops = @ + 1]

\* bind_current / get_current: the top target must exist
stack_bind_current(st) == IF st.cursor = 0 THEN [st EXCEPT !.err = TRUE] ELSE st

\* get_nth(n): the target n - 1 places above the top one (reading a popped,
\* pooled target); it must have been allocated
stack_get_nth(st, n) ==
    IF st.cursor + n - 1 < 0 \/ st.cursor + n - 1 >= st.pool
    THEN [st EXCEPT !.err = TRUE] ELSE st

stack_assert_no_stack(st) == IF st.cursor # 0 THEN [st EXCEPT !.err = TRUE] ELSE st

(***************************************************************************)
(* One draw as the sequence of calls it issues.  A call is                  *)
(* [op, stk, n, unit, j, i]: the operation, the buffer stack it acts on,   *)
(* get_nth's argument or the blur pass count, the texture unit bound, and  *)
(* the line group and colour channel of a pixel draw.                      *)
(***************************************************************************)
Call(op, stk, n, unit, j, i) == [op |-> op, stk |-> stk, n |-> n, unit |-> unit, j |-> j, i |-> i]

Gl(op) == Call(op, "", 0, -1, -1, -1)

Push(stk) == Call("push", stk, 0, -1, -1, -1)

Pop(stk) == Call("pop", stk, 0, -1, -1, -1)

Bind(stk) == Call("bind_current", stk, 0, -1, -1, -1)

GetCurrent(stk) == Call("get_current", stk, 0, -1, -1, -1)

GetNth(stk, n, unit) == Call("get_nth", stk, n, unit, -1, -1)

RECURSIVE Flatten(_)
Flatten(ss) == IF ss = <<>> THEN <<>> ELSE Head(ss) \o Flatten(Tail(ss))

\* a faulty color_splits that draws two channels in the split modes
color_splits_two(color_channels) == IF color_channels = "Combined" THEN 1 ELSE 2

\* let color_splits = match color_channels { Combined => 1, _ => 3 }
color_splits(color_channels) == IF color_channels = "Combined" THEN 1 ELSE 3

\* a faulty OverlappingPops that leaves the channel layers on the stack
OverlappingPops_none(f) == <<>>

\* a faulty OverlappingPops that leaves one channel layer on the stack
OverlappingPops_two(f) ==
    IF f.color_channels = "Overlapping" THEN <<Pop("main"), Pop("main")>> ELSE <<>>

\* the three pops that close one line group in Overlapping mode
OverlappingPops(f) ==
    IF f.color_channels = "Overlapping" THEN <<Pop("main"), Pop("main"), Pop("main")>> ELSE <<>>

\* a faulty RgbRecombination that reads one layer too far
RgbRecombination_fourth(f) ==
    IF f.color_channels = "Overlapping"
    THEN << Bind("main"), GetNth("main", 1, 0), GetNth("main", 2, 1), GetNth("main", 4, 2),
            Gl("rgb_render") >>
    ELSE <<>>

\* the RGB recombination of the three channel layers
RgbRecombination(f) ==
    IF f.color_channels = "Overlapping"
    THEN << Bind("main"), GetNth("main", 1, 0), GetNth("main", 2, 1), GetNth("main", 3, 2),
            Gl("rgb_render") >>
    ELSE <<>>

\* a faulty ChannelPass that clears the nested layer for every line group
ChannelPass_clears_always(f, first, j, i) ==
    (IF f.color_channels = "Overlapping"
     THEN <<Push("main"), Bind("main"), Gl("clear")>>
     ELSE <<>>)
    \o <<Call("pixels_render", "", 1, -1, j, i)>>

\* a faulty ChannelPass that binds without pushing a nested layer
ChannelPass_unpushed(f, first, j, i) ==
    (IF f.color_channels = "Overlapping" THEN <<Bind("main")>> ELSE <<>>)
    \o <<Call("pixels_render", "", 1, -1, j, i)>>

\* one channel sub-pass of one line group: in Overlapping mode a nested
\* layer is pushed and bound (and cleared for the first line group)
ChannelPass(f, first, j, i) ==
    (IF f.color_channels = "Overlapping"
     THEN <<Push("main"), Bind("main")>> \o (IF first THEN <<Gl("clear")>> ELSE <<>>)
     ELSE <<>>)
    \o <<Call("pixels_render", "", 1, -1, j, i)>>

\* a faulty Foreground that recombines the channels after every line group
Foreground_per_group(f) ==
    IF f.showing_diffuse_foreground
    THEN Flatten([j \in 1..f.lines_per_pixel |->
             Flatten([i \in 1..color_splits(f.color_channels) |->
                 ChannelPass(f, j = 1, j - 1, i - 1)])
             \o OverlappingPops(f) \o RgbRecombination(f)])
    ELSE <<>>

\* draw (simulation_program.rs): the foreground pass
Foreground(f) ==
    IF f.showing_diffuse_foreground
    THEN Flatten([j \in 1..f.lines_per_pixel |->
             Flatten([i \in 1..color_splits(f.color_channels) |->
                 ChannelPass(f, j = 1, j - 1, i - 1)])
             \o OverlappingPops(f)])
         \o RgbRecombination(f)
    ELSE <<>>

\* draw (simulation_program.rs)
draw(f) ==
    (IF f.needs_buffer_data_load THEN <<Gl("apply_colors")>> ELSE <<>>)
    \o <<Push("main"), Push("main"), Bind("main"), Gl("clear")>>
    \o Foreground(f)
    \o <<Push("main"), Bind("main"), Gl("clear")>>
    \o (IF f.showing_solid_background THEN <<Call("pixels_render", "", 0, -1, -1, -1)>> ELSE <<>>)
    \o <<Pop("main"), Pop("main"), Bind("main"), Gl("clear"),
         GetNth("main", 1, 0), GetNth("main", 2, 1), Gl("background_render")>>
    \o (IF f.blur_passes > 0 THEN <<Call("blur_render", "main", f.blur_passes, -1, -1, -1)>>
        ELSE <<>>)
    \o (IF f.launch_screenshot THEN <<Gl("read_pixels"), Gl("dispatch_screenshot")>> ELSE <<>>)
    \o <<Pop("main"), Call("assert_no_stack", "main", 0, -1, -1, -1), Gl("bind_framebuffer"),
         Gl("clear"), Gl("viewport"), GetNth("main", 1, -1),
         Gl("internal_resolution_render"), Gl("check_error")>>

\* SimulationDrawer::draw: the foreground loops
DrawerForeground(f) ==
    Flatten([h \in 1..f.horizontal_lpp |->
        Flatten([v \in 1..f.vertical_lpp |->
            Flatten([i \in 1..f.color_splits |->
                ChannelPass(f, v = 1 /\ h = 1, (v - 1) * f.horizontal_lpp + (h - 1), i - 1)])
            \o OverlappingPops(f)])])
    \o RgbRecombination(f)

\* SimulationDrawer::draw: the background pass on the background stack
DrawerBackground(f) ==
    IF f.showing_background
    THEN <<Gl("bg_set_resolution"), Push("bg"), Bind("bg"), Gl("clear")>>
         \o Flatten([h \in 1..f.horizontal_lpp |->
                [v \in 1..f.vertical_lpp |->
                    Call("pixels_render", "", 0, -1, (v - 1) * f.horizontal_lpp + (h - 1), -1)]])
         \o <<GetCurrent("bg"), GetCurrent("main"), Call("blur_render", "bg", 6, -1, -1, -1),
              Pop("bg")>>
    ELSE <<>>

\* SimulationDrawer::draw
SimulationDrawer_draw(f) ==
    (IF f.needs_buffer_data_load THEN <<Gl("load_image")>> ELSE <<>>)
    \o <<Gl("set_resolution"), Push("main"), Push("main"), Bind("main"), Gl("clear")>>
    \o DrawerForeground(f)
    \o <<Push("main"), Bind("main"), Gl("clear")>>
    \o DrawerBackground(f)
    \o <<Pop("main"), Pop("main"), Bind("main"), Gl("clear"),
         GetNth("main", 1, 0), GetNth("main", 2, 1), Gl("background_render")>>
    \o (IF f.blur_passes > 0
        THEN <<GetCurrent("main"), Call("blur_render", "main", f.blur_passes, -1, -1, -1)>>
        ELSE <<>>)
    \o (IF f.launch_screenshot THEN <<Gl("read_pixels"), Gl("dispatch_screenshot")>> ELSE <<>>)
    \o <<Pop("main"), Call("assert_no_stack", "main", 0, -1, -1, -1), Gl("bind_framebuffer"),
         Gl("clear"), Gl("viewport"), GetNth("main", 1, -1),
         Gl("internal_resolution_render"), Gl("check_error")>>

DrawCalls(f) == IF f.drawer = "draw" THEN draw(f) ELSE SimulationDrawer_draw(f)

\* BlurRender::render works on the stack it is given and leaves its depth
\* as it found it
blur_render(st) == st

\* the effect of one call on the buffer stack it names
ApplyCall(st, call) ==
    CASE call.op = "push" -> stack_push(st)
      [] call.op = "pop" -> stack_pop(st)
      [] call.op \in {"bind_current", "get_current"} -> stack_bind_current(st)
      [] call.op = "get_nth" -> stack_get_nth(st, call.n)
      [] call.op = "assert_no_stack" -> stack_assert_no_stack(st)
      [] call.op = "blur_render" -> blur_render(st)
      [] OTHER -> st

\* the stacks after calls lo..hi of a draw; the first failing call (`?`)
\* ends the draw
RECURSIVE RunCalls(_, _, _, _)
RunCalls(calls, lo, hi, sts) ==
    IF lo > hi \/ sts.main.err \/ sts.bg.err THEN sts
    ELSE IF lo = hi
         THEN IF calls[lo].stk = "" THEN sts
              ELSE [sts EXCEPT ![calls[lo].stk] = ApplyCall(@, calls[lo])]
         ELSE RunCalls(calls, ((lo + hi) \div 2) + 1, hi,
                       Only({ x : x \in {RunCalls(calls, lo, (lo + hi) \div 2, sts)} }))

\* one whole draw on configuration f
RunDraw(f, sts) == Only({ RunCalls(calls, 1, Len(calls), sts) : calls \in {DrawCalls(f)} })

BeginFrame(st) == [st EXCEPT !.pushes = 0, !.pops = 0]

\* the filter configuration draw (simulation_program.rs) reads from Resources
FrameOf(rs) ==
    [ drawer |-> "draw",
      needs_buffer_data_load |-> rs.animation.needs_buffer_data_load,
      color_channels |-> rs.crt_filters.color_channels,
      color_splits |-> color_splits(rs.crt_filters.color_channels),
      lines_per_pixel |-> rs.crt_filters.lines_per_pixel,
      vertical_lpp |-> rs.crt_filters.lines_per_pixel,
      horizontal_lpp |-> 1,
      showing_diffuse_foreground |-> rs.crt_filters.showing_diffuse_foreground,
      showing_solid_background |-> rs.crt_filters.showing_solid_background,
      showing_background |-> FALSE,
      blur_passes |-> rs.crt_filters.blur_passes,
      launch_screenshot |-> rs.launch_screenshot,
      calls |-> <<>> ]

(***************************************************************************)
(* The frame handlers.  A handler works on the world                       *)
(* w = [input, res, loop, tick, stack, bg_stack, frame] and returns the    *)
(* world it leaves.  tick records what the handler run did: the calls it   *)
(* made in order, how update returned, the notifications and predicate     *)
(* reads of update, the buttons pre_process_input tracked, and Resources   *)
(* before the run and as update left them.                                 *)
(***************************************************************************)
TickNew(rs) ==
    [ n |-> 0, calls |-> <<>>, result |-> "none", events |-> <<>>, reads |-> {},
      tracks |-> <<>>, before |-> rs, settled |-> rs, seen |-> InputNew,
      pointer |-> <<>> ]

RECURSIVE TrackAll(_, _)
TrackAll(button, names) ==
    IF names = <<>> THEN button
    ELSE TrackAll([button EXCEPT ![Head(names)] = track_input(@)], Tail(names))

\* pre_process_input (simulation_program.rs): sample the clock, track the buttons
pre_process_input(in, now) ==
    [in EXCEPT !.now = now, !.button = TrackAll(in.button, PreProcessTracks)]

RECURSIVE SetToSeq(_)
SetToSeq(S) == IF S = {} THEN <<>>
               ELSE LET x == CHOOSE y \in S : TRUE IN <<x>> \o SetToSeq(S \ {x})

\* get_mut_fields_booleanbutton(): every BooleanButton field of Input, once
BooleanButtonFields == SetToSeq(ButtonNames)

\* pre_process_input (simulation_main_functions.rs)
main_pre_process_input(in, now) ==
    [in EXCEPT !.now = now, !.button = TrackAll(in.button, BooleanButtonFields)]

\* a faulty post_process_input that leaves the custom event in place
post_process_input_keeps_event(in) ==
    [in EXCEPT !.mouse_scroll_y = 0, !.mouse_position_x = 0, !.mouse_position_y = 0]

post_process_input(in) ==
    [in EXCEPT !.mouse_scroll_y = 0, !.mouse_position_x = 0, !.mouse_position_y = 0,
               !.custom_event.kind = ""]

\* a pointer-lock request or release
IsPointerLockEvent(e) ==
    e.id \in {"app-event.request_pointer_lock", "app-event.exit_pointer_lock"}

\* the record of a handler run; pointer is the sequence of the pointer-lock
\* notifications dispatched since the program started
TickOf(w, in, c, tracks, calls) ==
    [ n |-> w.tick.n + 1, calls |-> calls,
      result |-> IF c.err THEN "error" ELSE IF c.cont THEN "continue" ELSE "terminate",
      events |-> c.events,
      reads |-> c.reads, tracks |-> tracks, before |-> w.res, settled |-> c.res,
      seen |-> in,
      pointer |-> w.tick.pointer \o SelectSeq(c.events, IsPointerLockEvent) ]

\* update returned Err: `?` leaves the handler at once
Aborted(w, in, c, tracks, keeps_ticking) ==
    [w EXCEPT !.input = in, !.res = c.res,
              !.loop.scheduled = keeps_ticking, !.loop.host_done = FALSE,
              !.tick = TickOf(w, in, c, tracks,
                              <<"pre_process_input", "update_simulation">>)]

\* a faulty Closed that asks for the next frame all the same
Closed_reschedules(w, in, c, tracks) ==
    [w EXCEPT !.input = in, !.res = c.res, !.loop.host_done = FALSE,
              !.tick = TickOf(w, in, c, tracks,
                              <<"pre_process_input", "update_simulation",
                                "request_animation_frame">>)]

\* update returned Ok(false): "User closed the simulation."
Closed(w, in, c, tracks) ==
    [w EXCEPT !.input = in, !.res = c.res,
              !.loop.scheduled = FALSE, !.loop.host_done = FALSE,
              !.tick = TickOf(w, in, c, tracks,
                              <<"pre_process_input", "update_simulation">>)]

\* update returned Ok(true): post_process_input, then draw on the Resources
\* the handler holds, then the next frame
Continued(w, in, c, tracks, f, draws) ==
    Only({ [w EXCEPT !.input = post_process_input(in), !.res = c.res,
                     !.loop.scheduled = ~(sts.main.err \/ sts.bg.err),
                     !.loop.host_done = FALSE,
                     !.tick = TickOf(w, in, c, tracks,
                                <<"pre_process_input", "update_simulation", "post_process_input">>
                                \o (IF draws THEN <<"draw">> ELSE <<>>)
                                \o (IF sts.main.err \/ sts.bg.err THEN <<>>
                                    ELSE <<"request_animation_frame">>)),
                     !.stack = sts.main, !.bg_stack = sts.bg,
                     !.frame = IF draws THEN f ELSE @] :
           sts \in { IF draws
                     THEN RunDraw(f, [main |-> BeginFrame(w.stack), bg |-> BeginFrame(w.bg_stack)])
                     ELSE [main |-> w.stack, bg |-> w.bg_stack] } })

\* a faulty AfterUpdate that draws whatever update returned
AfterUpdate_unchecked(w, in, c, tracks, keeps_ticking, f, draws) ==
    Continued(w, in, c, tracks, f, TRUE)

\* how a handler goes on from what update returned
AfterUpdate(w, in, c, tracks, keeps_ticking, f, draws) ==
    IF c.err THEN Aborted(w, in, c, tracks, keeps_ticking)
    ELSE IF ~c.cont THEN Closed(w, in, c, tracks)
    ELSE Continued(w, in, c, tracks, f, draws)

program_iteration(w, now) ==
    Only({ Only({ AfterUpdate(w, in, c, PreProcessTracks, FALSE, FrameOf(c.res), TRUE) :
                  c \in {update_simulation(w.res, in)} }) :
           in \in {pre_process_input(w.input, now)} })

\* what SimulationDrawer::draw reads, for the Resources simulation_tick holds
DrawerFrameOf(rs) ==
    [FrameOf(rs) EXCEPT !.drawer = "SimulationDrawer",
                        !.showing_diffuse_foreground = TRUE,
                        !.showing_background = rs.crt_filters.showing_solid_background,
                        !.showing_solid_background = FALSE]

\* the loop around simulation_tick keeps ticking after a failed tick
TickerKeepsTicking == TRUE

\* delay_elapsed: resources.screenshot_delay <= 0
simulation_tick(w, now, delay_elapsed) ==
    Only({ Only({ AfterUpdate(w, in, c, BooleanButtonFields, TickerKeepsTicking,
                              DrawerFrameOf(c.res), c.res.launch_screenshot \/ delay_elapsed) :
                  c \in {update_simulation(w.res, in)} }) :
           in \in {main_pre_process_input(w.input, now)} })

(***************************************************************************)
(* The host between two frames: key handlers set the raw button inputs and *)
(* flags, a custom event handler stores an override for the next update.   *)
(***************************************************************************)
Ev(kind, num) == [kind |-> kind, is_number |-> TRUE, num |-> num]

\* a custom event whose value is not a number
BadEv(kind) == [kind |-> kind, is_number |-> FALSE, num |-> 0]

\* the keys the host holds during a frame, one control at a time or a
\* control with its modifier
HostKeys ==
    {{}} \cup { {k} : k \in ButtonNames \cup (FlagNames \ {"shift", "alt", "input_focused"}) }
         \cup { {"shift", "speed_up"}, {"shift", "increase_pixel_gap"},
                {"shift", "decrease_pixel_gap"} }

\* the overrides the front end sends
HostEvents ==
    { BadEv("event_kind:blur_level"), Ev("event_kind:blur_level", 5),
      Ev("event_kind:blur_level", 150), Ev("event_kind:blur_level", -5),
      BadEv("event_kind:lines_per_pixel"), Ev("event_kind:lines_per_pixel", 0),
      Ev("event_kind:lines_per_pixel", 25),
      BadEv("event_kind:pixel_brightness"), Ev("event_kind:pixel_brightness", 0),
      Ev("event_kind:pixel_brightness", 5), Ev("event_kind:pixel_contrast", 30),
      BadEv("event_kind:light_color"), Ev("event_kind:light_color", 255),
      Ev("event_kind:pixel_width", -1), BadEv("event_kind:pixel_vertical_gap"),
      BadEv("event_kind:camera_zoom"), Ev("event_kind:camera_zoom", 60),
      Ev("event_kind:camera_pos_x", 3) }

\* an override arriving while a control of the same parameter is held, and
\* a malformed one arriving together with a mouse press
HostKeysWithEvent ==
    { <<{"increase_blur"}, BadEv("event_kind:blur_level")>>,
      <<{"increase_blur"}, Ev("event_kind:blur_level", 5)>>,
      <<{"decrease_blur"}, Ev("event_kind:blur_level", 5)>>,
      <<{"increase_lpp"}, BadEv("event_kind:lines_per_pixel")>>,
      <<{"decrease_lpp"}, BadEv("event_kind:lines_per_pixel")>>,
      <<{"increase_bright"}, Ev("event_kind:pixel_brightness", 0)>>,
      <<{"increase_bright"}, BadEv("event_kind:pixel_brightness")>>,
      <<{"increase_bright"}, Ev("event_kind:pixel_brightness", 5)>>,
      <<{"increase_lpp"}, Ev("event_kind:lines_per_pixel", 25)>>,
      <<{"increase_pixel_gap"}, Ev("event_kind:pixel_width", 2)>>,
      <<{"mouse_click"}, BadEv("event_kind:blur_level")>> }

\* no wheel or pointer movement since the last frame
NoMouse == [scroll |-> 0, x |-> 0, y |-> 0]

\* the wheel and pointer movements the host reports: a small and a large
\* scroll, and a pointer movement
HostMouse ==
    { [scroll |-> 3, x |-> 0, y |-> 0], [scroll |-> -50, x |-> 0, y |-> 0],
      [scroll |-> 0, x |-> 2, y |-> -1] }

\* what the host does between two frames: keys, an override, mouse movement
HostInputs ==
    { <<k, NoEvent, NoMouse>> : k \in HostKeys }
        \cup { <<{}, e, NoMouse>> : e \in HostEvents }
        \cup { <<h[1], h[2], NoMouse>> : h \in HostKeysWithEvent }
        \cup { <<{}, NoEvent, m>> : m \in HostMouse }
        \cup { <<{"mouse_click"}, NoEvent, m>> : m \in HostMouse }

\* the wheel and pointer listeners
on_mouse_input(in, m) ==
    [in EXCEPT !.mouse_scroll_y = IF m.scroll # 0 THEN m.scroll ELSE @,
               !.mouse_position_x = IF m.x # 0 THEN m.x ELSE @,
               !.mouse_position_y = IF m.y # 0 THEN m.y ELSE @]

\* on_button_action for every key, and the custom event setter
on_host_input(in, keys, ev) ==
    [in EXCEPT !.button = [b \in ButtonNames |-> [in.button[b] EXCEPT !.input = (b \in keys)]],
               !.flags = keys \cap FlagNames,
               !.custom_event = IF ev.kind = "" THEN @ ELSE ev]

World == [input |-> input, res |-> res, loop |-> loop, tick |-> tick,
          stack |-> stack, bg_stack |-> bg_stack, frame |-> frame]

Becomes(w) ==
    /\ input' = w.input
    /\ res' = w.res
    /\ loop' = w.loop
    /\ tick' = w.tick
    /\ stack' = w.stack
    /\ bg_stack' = w.bg_stack
    /\ frame' = w.frame
    /\ dpc' = 0
    /\ last_call' = last_call

HostInput ==
    /\ ~loop.host_done /\ tick.n < MaxTicks
    /\ \E h \in HostInputs :
          input' = on_mouse_input(on_host_input(input, h[1], h[2]), h[3])
    /\ loop' = [loop EXCEPT !.host_done = TRUE]
    /\ UNCHANGED <<res, tick, stack, bg_stack, frame, dpc, last_call>>

\* the animation-frame callback of program()
ProgramIteration ==
    /\ loop.harness = "program_iteration" /\ loop.scheduled /\ tick.n < MaxTicks
    /\ \E dt \in 1..MaxDt : \E w \in {program_iteration(World, input.now + dt)} : Becomes(w)

\* the ticker around simulation_tick
SimulationTick ==
    /\ loop.harness = "simulation_tick" /\ loop.scheduled /\ tick.n < MaxTicks
    /\ \E dt \in 1..MaxDt, delay_elapsed \in BOOLEAN :
          \E w \in {simulation_tick(World, input.now + dt, delay_elapsed)} : Becomes(w)

(***************************************************************************)
(* Initial states: the state after construction, on an animation of two    *)
(* steps or on a still image (one step), and the states a session reaches  *)
(* by letting the animation run to its last step with the screen wave on   *)
(* or by holding a control until its parameter rests on a bound.  Every    *)
(* use of the clock is a difference, so the clock restarts at 0.           *)
(***************************************************************************)
\* a single picture: steps = vec![AnimationStep { .. }]
StillImage == [ResourcesNew EXCEPT !.animation.steps_len = 1]

\* a two-step animation showing its last step
LastStep == [ResourcesNew EXCEPT !.animation.current_frame = 1]

\* a session whose animation shows its last step, whose screen wave was
\* switched on three time units ago and whose layering kind was stepped
\* twice, to the last variant
MidSession ==
    [LastStep EXCEPT !.crt_filters.showing_pixels_pulse = TRUE,
                     !.crt_filters.pixels_pulse = 3,
                     !.crt_filters.layering_kind = "ShadowWithSolidBackground25",
                     !.crt_filters.solid_color_weight = 25]

AtMaximum ==
    [ResourcesNew EXCEPT !.crt_filters.blur_passes = 100,
                         !.crt_filters.lines_per_pixel = 20,
                         !.crt_filters.extra_bright = 10,
                         !.crt_filters.extra_contrast = 200]

AtMinimum ==
    [ResourcesNew EXCEPT !.crt_filters.blur_passes = 0,
                         !.crt_filters.lines_per_pixel = 1,
                         !.crt_filters.extra_bright = -10,
                         !.crt_filters.extra_contrast = 0,
                         !.crt_filters.cur_pixel_width = 0,
                         !.camera.zoom = 1]

Init ==
    /\ input = InputNew
    /\ res \in {ResourcesNew, AtMaximum, AtMinimum, StillImage, MidSession}
    /\ loop \in { [harness |-> h, scheduled |-> TRUE, host_done |-> FALSE, frames |-> 0] :
                    h \in {"program_iteration", "simulation_tick"} }
    /\ tick = TickNew(res)
    /\ stack = StackNew
    /\ bg_stack = StackNew
    /\ frame = FrameOf(res)
    /\ dpc = 0
    /\ last_call = NoCall

Next == HostInput \/ ProgramIteration \/ SimulationTick

Spec == Init /\ [][Next]_vars

(***************************************************************************)
(* The tapping specification: a short session on the edge-driven controls  *)
(* (blur increase, colour representation, speed up / down with their       *)
(* modifier keys, reset speeds), started in any colour-channel mode and    *)
(* with the speeds at their base or one step inside a limit.               *)
(***************************************************************************)
MaxTapTicks == 3    \* frames run per behaviour of the tapping specification

\* the speeds after eight speed-up edges without and eight with shift:
\* 768, 8938.5 and 5120
FastSpeeds ==
    [ResourcesNew EXCEPT !.camera.turning_speed = 8,
                         !.camera.movement_speed = 8,
                         !.crt_filters.change_speed = 8]

\* the speeds after eight speed-down edges without and ten with shift:
\* 0.0117, 0.1364 and 0.0195
SlowSpeeds ==
    [ResourcesNew EXCEPT !.camera.turning_speed = -8,
                         !.camera.movement_speed = -8,
                         !.crt_filters.change_speed = -10]

\* the keys the host holds during a frame of the tapping session
TapKeys ==
    { {}, {"increase_blur"}, {"next_color_representation_kind"},
      {"speed_up"}, {"speed_down"}, {"shift", "speed_up"}, {"shift", "speed_down"},
      {"alt", "speed_up"}, {"alt", "shift", "speed_down"},
      {"reset_speeds", "speed_up"}, {"reset_speeds", "shift", "speed_down"} }

TapHostInput ==
    /\ ~loop.host_done /\ tick.n < MaxTapTicks
    /\ \E k \in TapKeys : input' = on_host_input(input, k, NoEvent)
    /\ loop' = [loop EXCEPT !.host_done = TRUE]
    /\ UNCHANGED <<res, tick, stack, bg_stack, frame, dpc, last_call>>

TapProgramIteration ==
    /\ loop.harness = "program_iteration" /\ loop.scheduled /\ tick.n < MaxTapTicks
    /\ \E w \in {program_iteration(World, input.now + 1)} : Becomes(w)

TapSimulationTick ==
    /\ loop.harness = "simulation_tick" /\ loop.scheduled /\ tick.n < MaxTapTicks
    /\ \E w \in {simulation_tick(World, input.now + 1, TRUE)} : Becomes(w)

InitTaps ==
    /\ input = InputNew
    /\ res \in { [rs EXCEPT !.crt_filters.color_channels = k] :
                   rs \in {ResourcesNew, FastSpeeds, SlowSpeeds},
                   k \in {"Combined", "Overlapping", "SplitHorizontal", "SplitVertical"} }
    /\ loop \in { [harness |-> h, scheduled |-> TRUE, host_done |-> FALSE, frames |-> 0] :
                    h \in {"program_iteration", "simulation_tick"} }
    /\ tick = TickNew(res)
    /\ stack = StackNew
    /\ bg_stack = StackNew
    /\ frame = FrameOf(res)
    /\ dpc = 0
    /\ last_call = NoCall

NextTaps == TapHostInput \/ TapProgramIteration \/ TapSimulationTick

SpecTaps == InitTaps /\ [][NextTaps]_vars

(***************************************************************************)
(* The drawing specification: one draw call by call, on every filter       *)
(* configuration, frame after frame on the same buffer stacks.             *)
(***************************************************************************)
\* the layer switches the layering kinds produce
LayerSwitches == { <<TRUE, FALSE>>, <<FALSE, TRUE>>, <<TRUE, TRUE>> }

ColorChannelsKinds == {"Combined", "Overlapping", "SplitHorizontal", "SplitVertical"}

\* the configurations draw (simulation_program.rs) runs on
DrawFrames ==
    { [ drawer |-> "draw", needs_buffer_data_load |-> FALSE,
        color_channels |-> cc, color_splits |-> color_splits(cc),
        lines_per_pixel |-> lpp, vertical_lpp |-> lpp, horizontal_lpp |-> 1,
        showing_diffuse_foreground |-> ls[1], showing_solid_background |-> ls[2],
        showing_background |-> FALSE, blur_passes |-> blur, launch_screenshot |-> shot,
        calls |-> <<>> ] :
      cc \in ColorChannelsKinds, lpp \in 1..MaxLpp, ls \in LayerSwitches,
      blur \in 0..MaxBlur, shot \in BOOLEAN }

\* the configurations SimulationDrawer::draw runs on
DrawerFrames ==
    { [ drawer |-> "SimulationDrawer", needs_buffer_data_load |-> FALSE,
        color_channels |-> cc, color_splits |-> color_splits(cc),
        lines_per_pixel |-> v, vertical_lpp |-> v, horizontal_lpp |-> h,
        showing_diffuse_foreground |-> TRUE, showing_solid_background |-> FALSE,
        showing_background |-> bg, blur_passes |-> blur, launch_screenshot |-> shot,
        calls |-> <<>> ] :
      cc \in ColorChannelsKinds, v \in 1..MaxLpp, h \in 1..MaxLpp, bg \in BOOLEAN,
      blur \in 0..MaxBlur, shot \in BOOLEAN }

\* the call the running draw issues next (frame.calls is the call sequence
\* of the running draw)
NextCall == frame.calls[dpc]

Drawing == dpc > 0 /\ dpc <= Len(frame.calls) /\ ~stack.err /\ ~bg_stack.err

\* the call the running draw issued last
LastCall == frame.calls[dpc - 1]

OnStack(call) ==
    /\ stack' = IF call.stk = "main" THEN ApplyCall(stack, call) ELSE stack
    /\ bg_stack' = IF call.stk = "bg" THEN ApplyCall(bg_stack, call) ELSE bg_stack
    /\ dpc' = dpc + 1
    /\ UNCHANGED <<input, res, loop, tick, frame, last_call>>

\* a frame is due: the first one loads the source image
DrawBegin ==
    /\ dpc = 0 /\ loop.frames < MaxFrames
    /\ \E f \in DrawFrames \cup DrawerFrames :
          \E g \in {[f EXCEPT !.needs_buffer_data_load = (loop.frames = 0)]} :
             frame' = [g EXCEPT !.calls = DrawCalls(g)]
    /\ loop' = [loop EXCEPT !.frames = @ + 1]
    /\ stack' = BeginFrame(stack)
    /\ bg_stack' = BeginFrame(bg_stack)
    /\ dpc' = 1
    /\ UNCHANGED <<input, res, tick, last_call>>

DrawPush == Drawing /\ NextCall.op = "push" /\ OnStack(NextCall)

DrawPop == Drawing /\ NextCall.op = "pop" /\ OnStack(NextCall)

DrawBind == Drawing /\ NextCall.op \in {"bind_current", "get_current"} /\ OnStack(NextCall)

DrawGetNth == Drawing /\ NextCall.op = "get_nth" /\ OnStack(NextCall)

DrawBlur == Drawing /\ NextCall.op = "blur_render" /\ OnStack(NextCall)

DrawAssertNoStack == Drawing /\ NextCall.op = "assert_no_stack" /\ OnStack(NextCall)

\* a call that touches no buffer stack
DrawGl == Drawing /\ NextCall.stk = "" /\ OnStack(NextCall)

\* draw returns Ok(()): its borrow of the configuration ends
DrawEnd ==
    /\ dpc = Len(frame.calls) + 1
    /\ dpc' = 0
    /\ frame' = FrameOf(res)
    /\ UNCHANGED <<input, res, loop, tick, stack, bg_stack, last_call>>

InitDraw ==
    /\ input = InputNew
    /\ res = ResourcesNew
    /\ loop = [harness |-> "draw", scheduled |-> FALSE, host_done |-> FALSE, frames |-> 0]
    /\ tick = TickNew(res)
    /\ stack = StackNew
    /\ bg_stack = StackNew
    /\ frame = FrameOf(res)
    /\ dpc = 0
    /\ last_call = NoCall

NextDraw ==
    \/ DrawBegin \/ DrawPush \/ DrawPop \/ DrawBind \/ DrawGetNth
    \/ DrawBlur \/ DrawAssertNoStack \/ DrawGl \/ DrawEnd

SpecDraw == InitDraw /\ [][NextDraw]_vars

(***************************************************************************)
(* The calls specification: the functions the host calls outside the frame *)
(* loop.  on_button_action works on the Input of action_bindings.rs, kept   *)
(* as the set of its boolean fields that are true.  An action string is    *)
(* the sequence of its pieces: a piece is either the character "+" or a    *)
(* maximal run of other characters, so "a+d" is <<"a", "+", "d">>, "+" is   *)
(* <<"+">> and the empty string is << >>.                                   *)
(***************************************************************************)
MaxCalls == 2    \* calls per behaviour of the calls specification

\* field = pressed
SetField(in, field, pressed) == IF pressed THEN in \cup {field} ELSE in \ {field}

\* the match arms of on_button_action that assign one field unconditionally
PlainBindings ==
    [ n \in { "feature-change-screen-layering-type", "feature-change-pixel-shadow",
              "input_focused", "a", "d", "w", "s", "q", "e" } |->
        CASE n = "feature-change-screen-layering-type" -> "next_layering_kind.input"
          [] n = "feature-change-pixel-shadow" -> "toggle_pixels_shadow_kind.input"
          [] n = "input_focused" -> "input_focused"
          [] n = "a" -> "walk_left"
          [] n = "d" -> "walk_right"
          [] n = "w" -> "walk_forward"
          [] n = "s" -> "walk_backward"
          [] n = "q" -> "walk_up"
          [] n = "e" -> "walk_down" ]
        @@
    [ n \in { "arrowleft", "arrowright", "arrowup", "arrowdown" } |->
        CASE n = "arrowleft" -> "turn_left"
          [] n = "arrowright" -> "turn_right"
          [] n = "arrowup" -> "turn_up"
          [] n = "arrowdown" -> "turn_down" ]
        @@
    [ n \in { "feature-change-move-speed-inc", "feature-change-move-speed-dec",
              "feature-change-pixel-speed-inc", "feature-change-pixel-speed-dec",
              "t", "reset-speeds", "camera-zoom-inc", "camera-zoom-dec" } |->
        CASE n = "feature-change-move-speed-inc" -> "translation_speed.increase.input"
          [] n = "feature-change-move-speed-dec" -> "translation_speed.decrease.input"
          [] n = "feature-change-pixel-speed-inc" -> "filter_speed.increase.input"
          [] n = "feature-change-pixel-speed-dec" -> "filter_speed.decrease.input"
          [] n \in {"t", "reset-speeds"} -> "reset_speeds"
          [] n = "camera-zoom-inc" -> "camera_zoom.increase"
          [] n = "camera-zoom-dec" -> "camera_zoom.decrease" ]
        @@
    [ n \in { "u", "pixel-vertical-gap-inc", "i", "pixel-vertical-gap-dec",
              "j", "pixel-horizontal-gap-inc", "k", "pixel-horizontal-gap-dec" } |->
        CASE n \in {"u", "pixel-vertical-gap-inc"} -> "pixel_scale_x.increase"
          [] n \in {"i", "pixel-vertical-gap-dec"} -> "pixel_scale_x.decrease"
          [] n \in {"j", "pixel-horizontal-gap-inc"} -> "pixel_scale_y.increase"
          [] n \in {"k", "pixel-horizontal-gap-dec"} -> "pixel_scale_y.decrease" ]
        @@
    [ n \in { "b", "blur-level-inc", "v", "bluer-level-dec", "<", "&lt;",
              "pixel-contrast-inc", "z", "pixel-contrast-dec", "c",
              "pixel-brightness-inc", "x", "pixel-brightness-dec" } |->
        CASE n \in {"b", "blur-level-inc"} -> "blur.increase.input"
          [] n \in {"v", "bluer-level-dec"} -> "blur.decrease.input"
          [] n \in {"<", "&lt;", "pixel-contrast-inc"} -> "contrast.increase"
          [] n \in {"z", "pixel-contrast-dec"} -> "contrast.decrease"
          [] n \in {"c", "pixel-brightness-inc"} -> "bright.increase"
          [] n \in {"x", "pixel-brightness-dec"} -> "bright.decrease" ]
        @@
    [ n \in { "y", "feature-change-color-representation", "o",
              "feature-change-pixel-geometry", "l", "feature-change-screen-curvature",
              "g", "lines-per-pixel-inc", "h", "lines-per-pixel-dec" } |->
        CASE n \in {"y", "feature-change-color-representation"}
                  -> "next_color_representation_kind.input"
          [] n \in {"o", "feature-change-pixel-geometry"} -> "next_pixel_geometry_kind.input"
          [] n \in {"l", "feature-change-screen-curvature"}
                  -> "next_screen_curvature_type.input"
          [] n \in {"g", "lines-per-pixel-inc"} -> "lpp.increase.input"
          [] n \in {"h", "lines-per-pixel-dec"} -> "lpp.decrease.input" ]
        @@
    [ n \in { "alt", " ", "space", "escape", "esc", "feature-quit", "f4",
              "reset-camera", "reset-filters" } |->
        CASE n = "alt" -> "alt"
          [] n \in {" ", "space"} -> "space.input"
          [] n \in {"escape", "esc", "feature-quit"} -> "esc.input"
          [] n = "f4" -> "screenshot.input"
          [] n = "reset-camera" -> "reset_position"
          [] n = "reset-filters" -> "reset_filters" ]

\* the hotkeys that are ignored while a form field has the focus
UnfocusedBindings ==
    [ n \in {",", ".", "+", "-"} |->
        CASE n = "," -> "next_layering_kind.input"
          [] n = "." -> "toggle_pixels_shadow_kind.input"
          [] n = "+" -> "rotate_left"
          [] n = "-" -> "rotate_right" ]

\* the keys whose field depends on shift: <<field with shift, field without>>
ShiftedBindings ==
    [ n \in {"f", "r", "n", "pixel-width-inc", "m", "pixel-width-dec"} |->
        CASE n = "f" -> <<"filter_speed.increase.input", "translation_speed.increase.input">>
          [] n = "r" -> <<"filter_speed.decrease.input", "translation_speed.decrease.input">>
          [] n \in {"n", "pixel-width-inc"} -> <<"pixel_gap.increase", "pixel_width.increase">>
          [] n \in {"m", "pixel-width-dec"} -> <<"pixel_gap.decrease", "pixel_width.decrease">> ]

\* a faulty "shift" arm that leaves the pixel flags of the other group set
shift_action_keeps(in, pressed) == SetField(in, "shift", pressed)

\* the "shift" arm
shift_action(in, pressed) ==
    IF pressed
    THEN (in \cup {"shift"}) \ {"pixel_width.increase", "pixel_width.decrease"}
    ELSE (in \ {"shift"}) \ {"pixel_gap.increase", "pixel_gap.decrease"}

\* str.contains('+')
ContainsPlus(a) == \E i \in DOMAIN a : a[i] = "+"

\* str.split('+'): the pieces between the separators, empty ones included
RECURSIVE SplitPlus(_)
SplitPlus(a) ==
    IF ~ContainsPlus(a) THEN <<a>>
    ELSE LET i == CHOOSE k \in DOMAIN a : a[k] = "+" /\ \A m \in 1..(k - 1) : a[m] # "+"
         IN  <<SubSeq(a, 1, i - 1)>> \o SplitPlus(SubSeq(a, i + 1, Len(a)))

\* the literal arms of the match, for an action string that is one of them
bound_action(in, n, pressed) ==
    IF n \in DOMAIN UnfocusedBindings
    THEN (IF "input_focused" \in in THEN in
          ELSE SetField(in, UnfocusedBindings[n], pressed))
    ELSE IF n \in DOMAIN PlainBindings THEN SetField(in, PlainBindings[n], pressed)
    ELSE IF n \in DOMAIN ShiftedBindings
         THEN SetField(in, ShiftedBindings[n][IF "shift" \in in THEN 1 ELSE 2], pressed)
    ELSE shift_action(in, pressed)

\* the strings with a literal arm
BoundNames ==
    DOMAIN UnfocusedBindings \cup DOMAIN PlainBindings \cup DOMAIN ShiftedBindings
        \cup {"shift"}

IsBound(button_action) == Len(button_action) = 1 /\ button_action[1] \in BoundNames

\* a faulty on_button_action that takes the release of an unknown key for
\* the release of every key
RECURSIVE FractionsOrRelease(_, _, _)
FractionsOrRelease(in, fractions, pressed) ==
    IF fractions = <<>> THEN in
    ELSE FractionsOrRelease(IF IsBound(Head(fractions))
                            THEN bound_action(in, Head(fractions)[1], pressed)
                            ELSE IF pressed THEN in ELSE {},
                            Tail(fractions), pressed)

on_button_action_releases_all(in, button_action, pressed) ==
    IF IsBound(button_action) THEN bound_action(in, button_action[1], pressed)
    ELSE IF ContainsPlus(button_action)
         THEN FractionsOrRelease(in, SplitPlus(button_action), pressed)
         ELSE IF pressed THEN in ELSE {}

\* a faulty composite arm that dispatches the fractions from right to left
RECURSIVE FractionsReversed(_, _, _)
FractionsReversed(in, fractions, pressed) ==
    IF fractions = <<>> THEN in
    ELSE LET rest == FractionsReversed(in, Tail(fractions), pressed)
         IN  IF IsBound(Head(fractions))
             THEN bound_action(rest, Head(fractions)[1], pressed) ELSE rest

on_button_action_reversed(in, button_action, pressed) ==
    IF IsBound(button_action) THEN bound_action(in, button_action[1], pressed)
    ELSE IF ContainsPlus(button_action)
         THEN FractionsReversed(in, SplitPlus(button_action), pressed)
         ELSE in

RECURSIVE ButtonFractions(_, _, _)
RECURSIVE on_button_action(_, _, _)
\* the for loop of the composite arm
ButtonFractions(in, fractions, pressed) ==
    IF fractions = <<>> THEN in
    ELSE ButtonFractions(on_button_action(in, Head(fractions), pressed),
                         Tail(fractions), pressed)

on_button_action(in, button_action, pressed) ==
    IF IsBound(button_action) THEN bound_action(in, button_action[1], pressed)
    ELSE IF ContainsPlus(button_action)
         THEN ButtonFractions(in, SplitPlus(button_action), pressed)
         ELSE in

\* the action names the host sends in the model: bound ones of every kind of
\* arm, the binding "+", and names without a binding
SentNames ==
    {"a", "f4", "n", "f", "shift", "input_focused", "+", ",", "zz", "blur-level-dec"}

\* the action strings the host sends: a name, two names joined by "+", the
\* empty string, strings with a leading, trailing or doubled separator, and
\* two named '-inc' actions
ActionStrings ==
    { <<n>> : n \in SentNames }
        \cup { <<n>> \o <<"+">> \o <<m>> : n, m \in SentNames }
        \cup { <<>>, <<"a", "+">>, <<"+", "+">>, <<"zz", "+">> }
        \cup { <<"blur-level-inc">>, <<"lines-per-pixel-inc">> }

\* one call of on_button_action with one of these action strings; down is
\* the set of action strings pressed and not released since
ButtonActionCall(actions, max) ==
    /\ last_call.n < max /\ CameBack
    /\ \E button_action \in actions, pressed \in BOOLEAN :
          \E after \in {on_button_action(last_call.held, button_action, pressed)} :
             last_call' = [ n |-> last_call.n + 1, fn |-> "on_button_action",
                            args |-> <<button_action, pressed>>,
                            before |-> last_call.held, result |-> after, held |-> after,
                            down |-> SetField(last_call.down, button_action, pressed) ]
    /\ UNCHANGED <<input, res, loop, tick, stack, bg_stack, frame, dpc>>

OnButtonAction == ButtonActionCall(ActionStrings, MaxCalls)

\* a faulty get_3_f32color_from_int that reads the channels as blue, green, red
get_3_f32color_from_int_bgr(color) ==
    << color % 256, (color \div 256) % 256, color \div 65536 >>

\* get_3_f32color_from_int: each channel is an integer divided by 255.0 and
\* is kept as that integer, so 255 stands for 1.0 and 0 for 0.0.  On i32,
\* `>> n` is the floor of the division by 2^n and `& 0xFF` the remainder
\* modulo 256.
get_3_f32color_from_int(color) ==
    << color \div 65536, (color \div 256) % 256, color % 256 >>

\* channel values: the ends, the middle, and the bytes of the yellow test colour
ColorBytes == {0, 1, 20, 127, 128, 235, 241, 255}

\* 0x00RRGGBB
ColorInt(rr, gg, bb) == rr * 65536 + gg * 256 + bb

\* the colours the function is called with: 0x00RRGGBB over the channel
\* values, and two i32 values with other top bytes
ColorInts ==
    { ColorInt(rr, gg, bb) : rr, gg, bb \in ColorBytes } \cup {16777216 + 255, -1}

GetColorFromInt ==
    /\ last_call.n < MaxCalls /\ CameBack
    /\ \E color \in ColorInts :
          last_call' = [ n |-> last_call.n + 1, fn |-> "get_3_f32color_from_int",
                         args |-> <<color>>, before |-> last_call.held,
                         result |-> get_3_f32color_from_int(color),
                         held |-> last_call.held, down |-> last_call.down ]
    /\ UNCHANGED <<input, res, loop, tick, stack, bg_stack, frame, dpc>>

\* `while bound_ratio < 1.0 { bound_ratio *= 2.0; resolution *= 2; }` on the
\* ratio num / den: <<num, resolution, TRUE>> when the loop ends, and
\* <<num, resolution, FALSE>> when an iteration leaves both variables as they
\* were with the condition still true, so that the loop never ends
RECURSIVE DoubleUntilOne(_, _, _)
DoubleUntilOne(num, den, resolution) ==
    IF num < den
    THEN IF 2 * num = num /\ 2 * resolution = resolution
         THEN <<num, resolution, FALSE>>
         ELSE DoubleUntilOne(2 * num, den, 2 * resolution)
    ELSE <<num, resolution, TRUE>>

\* `while divisor > 1 { if resolution % divisor == 0 { break; } divisor -= 1; }`
RECURSIVE LargestDivisor(_, _)
LargestDivisor(resolution, divisor) ==
    IF divisor > 1 /\ resolution % divisor # 0 THEN LargestDivisor(resolution, divisor - 1)
    ELSE divisor

\* an impure calculate_far_away_position that also reads how many calls were made
calculate_far_away_position_counting(a) ==
    [ resolution |-> a.viewport_height + last_call.n, bound_ratio |-> <<1, 1>>,
      factor |-> 12076, returns |-> TRUE ]

\* calculate_far_away_position on an AnimationData with a positive background.
\* Ratios are kept as fractions <<num, den>>; the result is kept as the
\* operands of the returned expression 0.5 + (resolution / bound_ratio) *
\* factor, with factor in ten-thousandths; returns tells whether the call
\* comes back at all.
calculate_far_away_position(a) ==
    LET viewport_width_scaled == a.viewport_width \div a.pixel_width
        \* width_ratio = viewport_width_scaled / width, height_ratio = viewport_height / height
        is_height_bounded ==
            viewport_width_scaled * a.background_height > a.viewport_height * a.background_width
        num == IF is_height_bounded THEN a.viewport_height ELSE viewport_width_scaled
        den == IF is_height_bounded THEN a.background_height ELSE a.background_width
        doubled == DoubleUntilOne(num, den, num)
        resolution == doubled[2]
        \* bound_ratio = ratio[1] / ratio[2]
        ratio == IF a.stretch THEN <<doubled[1], den>>
                 ELSE <<LargestDivisor(resolution, doubled[1] \div den), 1>>
        factor == IF is_height_bounded THEN 12076 ELSE 6800 * a.pixel_width
    IN  [resolution |-> resolution, bound_ratio |-> ratio, factor |-> factor,
         returns |-> doubled[3]]

\* viewport and background sizes, pixel widths and stretch flags of a few
\* videos, a viewport without width or height and a pixel wider than every
\* viewport among them
AnimationDatas ==
    { [ viewport_width |-> v[1], viewport_height |-> v[2],
        background_width |-> b[1], background_height |-> b[2],
        pixel_width |-> pw, stretch |-> st ] :
      v \in { <<800, 600>>, <<256, 240>>, <<1001, 900>>, <<0, 600>>, <<800, 0>> },
      b \in { <<256, 224>>, <<320, 200>>, <<1920, 1080>> },
      pw \in {1, 2, 1024}, st \in BOOLEAN }

CalculateFarAwayPosition ==
    /\ last_call.n < MaxCalls /\ CameBack
    /\ \E a \in AnimationDatas :
          last_call' = [ n |-> last_call.n + 1, fn |-> "calculate_far_away_position",
                         args |-> <<a>>,
                         before |-> <<last_call.fn, last_call.args, last_call.result>>,
                         result |-> calculate_far_away_position(a),
                         held |-> last_call.held, down |-> last_call.down ]
    /\ UNCHANGED <<input, res, loop, tick, stack, bg_stack, frame, dpc>>

MaxVariants == 5    \* largest enum the cycling functions are called on

\* FromPrimitive::from_usize of an enum with len variants: the variant with
\* this discriminant, or None (-1) when there is none
from_usize(len, i) == IF i >= 0 /\ i < len THEN i ELSE -1

\* the closures next_enum_variant and previous_enum_variant hand over
enum_action(len, fn, u) ==
    IF fn = "next_enum_variant" THEN u + 1
    ELSE IF u = 0 THEN len - 1 ELSE u - 1

\* change_enum_variant: the new variant, with the indices handed to
\* from_usize in order
change_enum_variant(len, instance, fn) ==
    LET wanted == enum_action(len, fn, instance)
    IN  IF from_usize(len, wanted) # -1
        THEN [variant |-> from_usize(len, wanted), decoded |-> <<wanted>>]
        ELSE [variant |-> from_usize(len, 0), decoded |-> <<wanted, 0>>]

\* one call of next_enum_variant or previous_enum_variant on a variant of an
\* enum with 1..MaxVariants variants
ChangeEnumVariant ==
    /\ last_call.n < MaxCalls /\ CameBack
    /\ \E len \in 1..MaxVariants, fn \in {"next_enum_variant", "previous_enum_variant"} :
          \E instance \in 0..(len - 1) :
             last_call' = [ n |-> last_call.n + 1, fn |-> fn,
                            args |-> <<len, instance>>, before |-> last_call.held,
                            result |-> change_enum_variant(len, instance, fn),
                            held |-> last_call.held, down |-> last_call.down ]
    /\ UNCHANGED <<input, res, loop, tick, stack, bg_stack, frame, dpc>>

InitCalls ==
    /\ input = InputNew
    /\ res = ResourcesNew
    /\ loop = [harness |-> "program_iteration", scheduled |-> FALSE, host_done |-> FALSE,
               frames |-> 0]
    /\ tick = TickNew(res)
    /\ stack = StackNew
    /\ bg_stack = StackNew
    /\ frame = FrameOf(res)
    /\ dpc = 0
    /\ last_call = NoCall

NextCalls ==
    OnButtonAction \/ GetColorFromInt \/ CalculateFarAwayPosition \/ ChangeEnumVariant

SpecCalls == InitCalls /\ [][NextCalls]_vars

(***************************************************************************)
(* The keys specification: a longer run of on_button_action calls on the   *)
(* keys whose binding depends on shift, so that shift and another key can  *)
(* be pressed and released in every order.                                 *)
(***************************************************************************)
MaxKeyCalls == 4    \* calls per behaviour of the keys specification

\* shift, the shift-dependent keys, two named actions and a composite
KeyStrings ==
    { <<"shift">>, <<"f">>, <<"r">>, <<"n">>, <<"m">>, <<"pixel-width-inc">>,
      <<"feature-change-pixel-speed-inc">>, <<"shift", "+", "n">> }

KeyAction == ButtonActionCall(KeyStrings, MaxKeyCalls)

SpecKeys == InitCalls /\ [][KeyAction]_vars

(***************************************************************************)
(* Properties.                                                             *)
(***************************************************************************)
\* how many notifications with this id a tick dispatched
CountId(events, id) == Cardinality({ i \in DOMAIN events : events[i].id = id })

\* how many top messages with this text a tick dispatched
CountMsg(events, msg) ==
    Cardinality({ i \in DOMAIN events :
                    events[i].id = "app-event.top_message" /\ events[i].msg = msg })

\* the place of a call in the handler run (0 when it was not made)
CallIndex(name) ==
    IF \E i \in DOMAIN tick.calls : tick.calls[i] = name
    THEN CHOOSE i \in DOMAIN tick.calls : tick.calls[i] = name
    ELSE 0

\* update of the last handler run returned Ok
UpdateReturnedOk == tick.result \in {"continue", "terminate"}

\* the last handler run held no reset control
NoReset == ~Flag(tick.seen, "reset_filters") /\ ~Flag(tick.seen, "reset_speeds")

\* C1: in one draw, on every filter configuration, the main buffer stack
\* never fails, it is empty when assert_no_stack has run, and the draw has
\* issued as many pushes as pops by then and when it returns.
C1_StackBalanced ==
    /\ ~stack.err
    /\ (dpc > 1 /\ LastCall.op = "assert_no_stack")
          => (stack.cursor = 0 /\ stack.pushes = stack.pops)
    /\ (dpc > 1 /\ dpc = Len(frame.calls) + 1)
          => (stack.cursor = 0 /\ stack.pushes = stack.pops)

C1_Witness ==
    /\ dpc > 1 /\ LastCall.op = "assert_no_stack"
    /\ frame.color_channels = "Overlapping" /\ frame.vertical_lpp >= 2
    /\ frame.blur_passes > 0 /\ frame.launch_screenshot
    /\ stack.pushes >= 9 /\ loop.frames = 2

\* C2: a tick whose update sees the escape edge dispatches exiting_session
\* once, returns the terminate signal, does not draw and asks for no further
\* frame; and once a tick has terminated no handler runs again.
C2_EscapeTerminates ==
    /\ [](  (UpdateReturnedOk /\ JustPressed(tick.seen, "esc"))
            => /\ tick.result = "terminate"
               /\ CountId(tick.events, "app-event.exiting_session") = 1
               /\ CallIndex("draw") = 0
               /\ CallIndex("request_animation_frame") = 0
               /\ ~loop.scheduled )
    /\ [][ tick.result = "terminate"
           => (tick' = tick /\ res' = res /\ stack' = stack /\ ~loop'.scheduled) ]_vars

C2_Witness ==
    /\ tick.result = "terminate" /\ tick.n = 1 /\ loop.host_done
    /\ input.button["esc"].input = FALSE

\* C3: a tick whose update failed leaves timers, animation, filters, speeds
\* and camera as they were before the tick.
C3_NoPartialState == tick.result = "error" => (tick.settled = tick.before /\ res = tick.before)

\* C4: after a tick whose update failed the loop stays scheduled and the
\* custom event that failed it is gone from Input.
C4_LaterTicksUnaffected ==
    (tick.result = "error" /\ ~loop.host_done)
        => (loop.scheduled /\ input.custom_event.kind = "")

\* C5: after any ticks brightness is in [-1, 1], contrast in [0, 20] and the
\* four pixel sizes are at least 0.
C5_ContinuousInBounds ==
    /\ res.crt_filters.extra_bright \in -10..10
    /\ res.crt_filters.extra_contrast \in 0..200
    /\ res.crt_filters.cur_pixel_scale_x >= 0
    /\ res.crt_filters.cur_pixel_scale_y >= 0
    /\ res.crt_filters.cur_pixel_width >= 0
    /\ res.crt_filters.cur_pixel_gap >= 0

\* C6: at every tick boundary blur_passes is in 0..100 and lines_per_pixel
\* in 1..20.
C6_DiscreteInBounds ==
    /\ res.crt_filters.blur_passes \in 0..100
    /\ res.crt_filters.lines_per_pixel \in 1..20

\* the change notification of a parameter is dispatched once when the tick
\* changed the parameter and not at all when it did not
ChangeNotified(field, event_id) ==
    CountId(tick.events, event_id)
        = (IF tick.settled.crt_filters[field] # tick.before.crt_filters[field] THEN 1 ELSE 0)

\* C7: a tick whose update returned dispatches the change notification of
\* brightness, contrast, blur level and lines per pixel exactly when the
\* value differs from the one at tick start, and at most once.
C7_ChangeNotifiedOnce ==
    (UpdateReturnedOk /\ NoReset)
        => /\ ChangeNotified("extra_bright", "app-event.change_pixel_brightness")
           /\ ChangeNotified("extra_contrast", "app-event.change_pixel_contrast")
           /\ ChangeNotified("blur_passes", "app-event.change_blur_level")
           /\ ChangeNotified("lines_per_pixel", "app-event.change_lines_per_pixel")

\* the value a tick computes for a parameter before it is clamped: the start
\* value moved by the controls, or the override when the tick carries one
RawBright ==
    LET in == tick.seen
        velocity == ScaleBySpeed(delta_time(tick.before, in),
                                 tick.before.crt_filters.change_speed)
    IN  IF in.custom_event.kind = "event_kind:pixel_brightness" THEN in.custom_event.num * 10
        ELSE tick.before.crt_filters.extra_bright
                 + (IF Flag(in, "increase_bright") THEN velocity ELSE 0)
                 - (IF Flag(in, "decrease_bright") THEN velocity ELSE 0)

RawDiscrete(field, kind, inc, dec) ==
    LET in == tick.seen
    IN  IF in.custom_event.kind = kind THEN in.custom_event.num
        ELSE tick.before.crt_filters[field]
                 + (IF JustPressed(in, inc) THEN 1 ELSE 0)
                 - (IF JustPressed(in, dec) THEN 1 ELSE 0)

BoundaryNotified(raw, min, max, min_msg, max_msg) ==
    /\ (CountMsg(tick.events, min_msg) > 0) <=> (raw < min)
    /\ (CountMsg(tick.events, max_msg) > 0) <=> (raw > max)

\* C8: a tick whose update returned dispatches the minimum (maximum) message
\* of brightness, blur level and lines per pixel exactly when the value it
\* computed lay below the minimum (above the maximum) and was clamped.
C8_BoundaryIffClamped ==
    (UpdateReturnedOk /\ NoReset)
        => /\ BoundaryNotified(RawBright, -10, 10, "Minimum value is -1.0",
                               "Maximum value is +1.0")
           /\ BoundaryNotified(RawDiscrete("blur_passes", "event_kind:blur_level",
                                           "increase_blur", "decrease_blur"),
                               0, 100, "Minimum value is 0", "Maximum value is 100")
           /\ BoundaryNotified(RawDiscrete("lines_per_pixel", "event_kind:lines_per_pixel",
                                           "increase_lpp", "decrease_lpp"),
                               1, 20, "Minimum value is 1", "Maximum value is 20")

\* C9: a handler run draws at most once, only after update of the same run
\* returned the continue signal, and on the Resources as update left them.
C9_DrawAfterUpdate ==
    /\ Count(tick.calls, "draw") <= 1
    /\ Count(tick.calls, "update_simulation") <= 1
    /\ CallIndex("draw") > 0
          => /\ tick.result = "continue"
             /\ CallIndex("update_simulation") > 0
             /\ CallIndex("update_simulation") < CallIndex("draw")
             /\ res = tick.settled
             /\ [frame EXCEPT !.calls = <<>>]
                   = (IF loop.harness = "program_iteration" THEN FrameOf(tick.settled)
                      ELSE DrawerFrameOf(tick.settled))

C9_Witness ==
    /\ CallIndex("draw") > 0 /\ tick.n = 2
    /\ tick.settled.crt_filters.blur_passes # tick.before.crt_filters.blur_passes
    /\ frame.blur_passes = tick.settled.crt_filters.blur_passes

\* C10: every button whose edge predicates update read in a handler run was
\* tracked exactly once by pre_process_input of that run, and
\* pre_process_input ran before update.
C10_TrackedOnceBeforeRead ==
    tick.result # "none"
        => /\ \A b \in tick.reads : Count(tick.tracks, b) = 1
           /\ CallIndex("pre_process_input") = 1
           /\ CallIndex("update_simulation") = 2

C10_Witness ==
    /\ tick.result = "continue" /\ tick.reads = ButtonNames
    /\ loop.harness = "program_iteration" /\ tick.n = 2
    /\ JustReleased(tick.seen, "screenshot")

\* a step of the model that is one run of the frame handler
IsTick == tick'.n = tick.n + 1

\* C11: in every handler run, for every button, is_just_pressed holds
\* exactly when the raw sample was false when the previous run tracked it and
\* is true when this run tracks it; so the run increments blur_passes when
\* the blur-increase sample went from false to true and leaves it alone while
\* the button stays held.
C11_EdgeOncePerPress ==
    [][ IsTick =>
          /\ \A b \in ButtonNames :
                JustPressed(tick'.seen, b)
                    <=> (~tick.seen.button[b].input /\ input.button[b].input)
          /\ (tick'.result = "continue"
                /\ ~JustPressed(tick'.seen, "decrease_blur")
                /\ tick'.seen.custom_event.kind # "event_kind:blur_level"
                /\ ~Flag(tick'.seen, "reset_filters")
                /\ tick'.before.crt_filters.blur_passes < 100)
             => tick'.settled.crt_filters.blur_passes
                   = tick'.before.crt_filters.blur_passes
                       + (IF ~tick.seen.button["increase_blur"].input
                              /\ input.button["increase_blur"].input THEN 1 ELSE 0) ]_vars

C11_Witness ==
    /\ tick.n = 3 /\ tick.result = "continue"
    /\ tick.seen.button["increase_blur"].previous /\ tick.seen.button["increase_blur"].current
    /\ tick.before.crt_filters.blur_passes = 2 /\ res.crt_filters.blur_passes = 2

\* the values the notifications with this id carried
ValuesOf(events, id) ==
    { events[i].val : i \in { j \in DOMAIN events : events[j].id = id } }

\* C12: with blur_passes = 0 at tick start and no blur override, a tick with
\* only the blur-increase edge ends with blur_passes = 1 and one blur-level
\* change notification, carrying 1; a tick with only the blur-decrease edge
\* ends with blur_passes = 0, a "Minimum value is 0" message and no change
\* notification.
C12_BlurFromZero ==
    ( /\ UpdateReturnedOk /\ NoReset
      /\ tick.before.crt_filters.blur_passes = 0
      /\ tick.seen.custom_event.kind # "event_kind:blur_level" )
    => /\ (JustPressed(tick.seen, "increase_blur") /\ ~JustPressed(tick.seen, "decrease_blur"))
          => /\ tick.settled.crt_filters.blur_passes = 1
             /\ CountId(tick.events, "app-event.change_blur_level") = 1
             /\ ValuesOf(tick.events, "app-event.change_blur_level") = {1}
       /\ (JustPressed(tick.seen, "decrease_blur") /\ ~JustPressed(tick.seen, "increase_blur"))
          => /\ tick.settled.crt_filters.blur_passes = 0
             /\ CountMsg(tick.events, "Minimum value is 0") = 1
             /\ CountId(tick.events, "app-event.change_blur_level") = 0

C12_Witness ==
    /\ tick.n = 2 /\ tick.result = "continue"
    /\ tick.before.crt_filters.blur_passes = 0
    /\ JustPressed(tick.seen, "increase_blur")
    /\ res.crt_filters.blur_passes = 1
    /\ CountId(tick.events, "app-event.change_blur_level") = 1

\* the buffer stack a call of the running draw acts on
StackOf(call) == IF call.stk = "bg" THEN bg_stack ELSE stack

\* C13: whenever the running draw is about to issue a pop or a bind_current,
\* the stack it names holds at least one target, and the draw has so far
\* pushed more often than it has popped on that stack.
C13_PopsArePaired ==
    (Drawing /\ NextCall.op \in {"pop", "bind_current"})
        => /\ StackOf(NextCall).cursor >= 1
           /\ StackOf(NextCall).pushes > StackOf(NextCall).pops

C13_Witness ==
    /\ Drawing /\ NextCall.op = "pop" /\ NextCall.stk = "main"
    /\ frame.color_channels = "Overlapping" /\ frame.drawer = "SimulationDrawer"
    /\ frame.showing_background
    /\ stack.cursor = 3 /\ stack.pops >= 5 /\ loop.frames = 2

\* how many of the first m calls of the running draw are this operation on
\* the main stack
MainCalls(op, m) ==
    Cardinality({ i \in 1..m : frame.calls[i].op = op /\ frame.calls[i].stk = "main" })

\* depth of the main stack after the first m calls of the running draw
MainDepthAfter(m) ==
    (stack.cursor - (stack.pushes - stack.pops)) + MainCalls("push", m) - MainCalls("pop", m)

\* depth of the main-stack target that call idx of the running draw writes
\* to: the top target at the last bind_current before it
BoundDepthAt(idx) ==
    LET binds == { i \in 1..idx : frame.calls[i].op = "bind_current"
                                    /\ frame.calls[i].stk = "main" }
    IN  IF binds = {} THEN 0
        ELSE MainDepthAfter(CHOOSE i \in binds : \A k \in binds : k <= i)

\* call idx writes the foreground layer: the pixel draws, or in Overlapping
\* mode the recombination of the channel layers
IsForegroundWrite(idx) ==
    LET call == frame.calls[idx]
    IN  \/ call.op = "rgb_render"
        \/ frame.color_channels # "Overlapping" /\ call.op = "pixels_render" /\ call.n = 1

\* depth of the main-stack target the background writes of the running draw
\* went to: the solid pixel draw of draw, the background blur of
\* SimulationDrawer::draw
BackgroundWriteDepths ==
    { BoundDepthAt(idx) : idx \in { i \in 1..(dpc - 1) :
          frame.drawer = "draw" /\ frame.calls[i].op = "pixels_render"
              /\ frame.calls[i].n = 0 } }
    \cup { MainDepthAfter(idx) : idx \in { i \in 1..(dpc - 1) :
          frame.calls[i].op = "blur_render" /\ frame.calls[i].stk = "bg" } }

LineGroups ==
    IF frame.drawer = "draw" THEN frame.lines_per_pixel
    ELSE frame.vertical_lpp * frame.horizontal_lpp

\* the calls of the running draw that are this operation
CallsOf(op) == { i \in DOMAIN frame.calls : frame.calls[i].op = op }

\* the foreground pixel draws among the first m calls of the running draw
ChannelDraws(m) ==
    { i \in 1..m : frame.calls[i].op = "pixels_render" /\ frame.calls[i].n = 1 }

\* C15 as the spec has it: in Overlapping mode a complete draw has run one
\* RGB recombination per line group.
C15_RecombinationPerLineGroup ==
    (dpc = Len(frame.calls) + 1 /\ dpc > 1 /\ frame.color_channels = "Overlapping"
        /\ frame.showing_diffuse_foreground)
    => Cardinality(CallsOf("rgb_render")) = LineGroups

\* pushes less pops among the first m calls of the running draw: the depth
\* of the main stack relative to the start of the frame
FrameDepthAfter(m) == MainCalls("push", m) - MainCalls("pop", m)

\* C15: in Overlapping mode every channel sub-pass i of every line group
\* draws right after a push and a bind_current of its own nested layer, i + 1
\* layers above the working target; the three layers are popped after each
\* line group; and after the last line group the draw runs the RGB
\* recombination once, on the working target, with get_nth(1), get_nth(2)
\* and get_nth(3) bound to texture units 0, 1 and 2.  The other modes run no
\* recombination.
C15_RecombinationOncePerFrame ==
    /\ (Drawing /\ NextCall.op = "rgb_render")
          => /\ frame.color_channels = "Overlapping"
             /\ Cardinality(CallsOf("rgb_render")) = 1
             /\ Cardinality(ChannelDraws(Len(frame.calls))) = 3 * LineGroups
             /\ ChannelDraws(Len(frame.calls)) = ChannelDraws(dpc - 1)
             /\ MainCalls("pop", dpc - 1) = 3 * LineGroups
             /\ MainCalls("push", dpc - 1) = 2 + 3 * LineGroups
             /\ frame.calls[dpc - 4].op = "bind_current"
             /\ \A u \in 0..2 :
                   /\ frame.calls[dpc - 3 + u].op = "get_nth"
                   /\ frame.calls[dpc - 3 + u].unit = u
                   /\ frame.calls[dpc - 3 + u].n = u + 1
             /\ \A idx \in ChannelDraws(dpc - 1) :
                   LET bind == IF frame.calls[idx - 1].op = "clear" THEN idx - 2 ELSE idx - 1
                   IN  /\ frame.calls[bind].op = "bind_current"
                       /\ frame.calls[bind - 1].op = "push"
                       /\ FrameDepthAfter(idx) = FrameDepthAfter(dpc - 1) + frame.calls[idx].i + 1
    /\ (dpc > 0 /\ frame.color_channels # "Overlapping") => CallsOf("rgb_render") = {}
    /\ (dpc > 0 /\ frame.color_channels = "Overlapping" /\ frame.showing_diffuse_foreground)
          => Cardinality(CallsOf("rgb_render")) = 1

C15_Witness ==
    /\ Drawing /\ NextCall.op = "rgb_render"
    /\ frame.drawer = "SimulationDrawer"
    /\ frame.vertical_lpp = 2 /\ frame.horizontal_lpp = 2
    /\ MainCalls("pop", dpc - 1) = 12 /\ FrameDepthAfter(dpc - 1) = 2 /\ loop.frames = 2

SpeedNames == {"turning_speed", "movement_speed", "change_speed"}

\* the speed of these Resources, as its exponent
SpeedOf(rs, which) == GetSpeed([res |-> rs], which)

\* 0.01 <= base * 2^k <= 10000.0
SpeedInBounds(which, k) ==
    IF k >= 0 THEN SpeedBaseMilli(which) * Pow2(k) <= 10000000
    ELSE SpeedBaseMilli(which) >= 10 * Pow2(0 - k)

\* C16: the turning speed, the movement speed and the filter-change speed
\* each lie within [0.01, 10000].
C16_SpeedsInBounds == \A which \in SpeedNames : SpeedInBounds(which, SpeedOf(res, which))

\* a tick whose update ran to its end with just one of the two speed edges
\* and neither reset
OneSpeedEdge ==
    /\ IsTick /\ tick'.result = "continue"
    /\ JustPressed(tick'.seen, "speed_up") # JustPressed(tick'.seen, "speed_down")
    /\ ~Flag(tick'.seen, "reset_speeds") /\ ~Flag(tick'.seen, "reset_filters")

\* the exponent after one doubling or halving, or the same exponent at the limit
SpeedStepped(which, k, up) ==
    IF up THEN (IF SpeedBelowMax(which, k) THEN k + 1 ELSE k)
    ELSE (IF SpeedAboveMin(which, k) THEN k - 1 ELSE k)

\* this speed is what the tick found
SpeedKept(which) == SpeedOf(tick'.settled, which) = SpeedOf(tick'.before, which)

\* this speed was doubled or halved within its limits
SpeedMoved(which) ==
    SpeedOf(tick'.settled, which)
        = SpeedStepped(which, SpeedOf(tick'.before, which), JustPressed(tick'.seen, "speed_up"))

\* this speed is twice or half of what the tick found
SpeedDoubledOrHalved(which) ==
    SpeedOf(tick'.settled, which)
        = SpeedOf(tick'.before, which) + (IF JustPressed(tick'.seen, "speed_up") THEN 1 ELSE -1)

\* C17 as stated: a tick with one speed edge doubles or halves exactly one of
\* the groups {turning speed, movement speed} and {filter-change speed} and
\* leaves the other group unchanged.
C17_ExactlyOneGroup ==
    [][ OneSpeedEdge =>
          \/ /\ SpeedDoubledOrHalved("turning_speed") /\ SpeedDoubledOrHalved("movement_speed")
             /\ SpeedKept("change_speed")
          \/ /\ SpeedDoubledOrHalved("change_speed")
             /\ SpeedKept("turning_speed") /\ SpeedKept("movement_speed") ]_vars

\* C17: in a tick with one speed edge and no reset, with alt held no speed
\* changes; with shift held and alt not, only the filter-change speed is
\* doubled or halved (unless it is at its limit); with neither held, only the
\* turning speed and the movement speed are doubled or halved (each unless at
\* its limit).
C17_GroupByModifier ==
    [][ OneSpeedEdge =>
          IF Flag(tick'.seen, "alt")
          THEN \A which \in SpeedNames : SpeedKept(which)
          ELSE IF Flag(tick'.seen, "shift")
               THEN /\ SpeedMoved("change_speed")
                    /\ SpeedKept("turning_speed") /\ SpeedKept("movement_speed")
               ELSE /\ SpeedMoved("turning_speed") /\ SpeedMoved("movement_speed")
                    /\ SpeedKept("change_speed") ]_vars

C17_Witness ==
    /\ tick.n > 0 /\ tick.result = "continue"
    /\ Flag(tick.seen, "alt") /\ JustPressed(tick.seen, "speed_up")
    /\ ~JustPressed(tick.seen, "speed_down") /\ ~Flag(tick.seen, "reset_speeds")
    /\ \A which \in SpeedNames :
          /\ SpeedOf(res, which) = SpeedOf(tick.before, which)
          /\ SpeedBelowMax(which, SpeedOf(res, which))

\* C18: a tick whose update ran to its end with reset_speeds set leaves the
\* turning speed, the movement speed and the filter-change speed at their
\* initial values, whatever speed edges and modifiers the tick saw.
C18_ResetSpeeds ==
    [][ (IsTick /\ tick'.result = "continue" /\ Flag(tick'.seen, "reset_speeds"))
          => /\ \A which \in SpeedNames : SpeedOf(res', which) = SpeedOf(ResourcesNew, which)
             /\ CountMsg(tick'.events, "All speeds have been reset.") = 1 ]_vars

C18_Witness ==
    /\ tick.n > 0 /\ tick.result = "continue"
    /\ Flag(tick.seen, "reset_speeds") /\ JustPressed(tick.seen, "speed_up")
    /\ ~Flag(tick.seen, "alt") /\ ~Flag(tick.seen, "shift")
    /\ SpeedOf(tick.before, "turning_speed") = 8
    /\ ValuesOf(tick.events, "app-event.change_turning_speed") = {9, 1}
    /\ \A which \in SpeedNames : SpeedOf(res, which) = 0

ColorModeCycle == <<"Combined", "Overlapping", "SplitHorizontal", "SplitVertical">>

ColorModes == { ColorModeCycle[i] : i \in DOMAIN ColorModeCycle }

\* the mode after this one in the cycle
CycleSuccessor(k) ==
    Only({ ColorModeCycle[(i % 4) + 1] : i \in { j \in DOMAIN ColorModeCycle : ColorModeCycle[j] = k } })

\* the top messages of a tick that describe a colour mode
ColorModeMessages(events) ==
    { i \in DOMAIN events : events[i].id = "app-event.top_message" /\ events[i].msg \in ColorModes }

\* one run of the frame handler of this world's harness
HandlerRun(w) ==
    IF w.loop.harness = "program_iteration" THEN program_iteration(w, w.input.now + 1)
    ELSE simulation_tick(w, w.input.now + 1, TRUE)

\* the host sets the keys, then the handler runs
Tap(w, keys) ==
    Only({ HandlerRun(x) : x \in {[w EXCEPT !.input = on_host_input(w.input, keys, NoEvent)]} })

\* n times: press the key in one tick and release it in the next
RECURSIVE TapTimes(_, _, _)
TapTimes(w, key, n) ==
    IF n = 0 THEN w
    ELSE Only({ TapTimes(y, key, n - 1) : y \in { Tap(x, {}) : x \in {Tap(w, {key})} } })

\* C19: the colour mode is always one of the four modes; a tick with the
\* next-colour-representation edge moves it to the next mode of the cycle
\* Combined, Overlapping, SplitHorizontal, SplitVertical, Combined and sends
\* one message, that of the new mode; a tick without the edge keeps the mode;
\* four edges in a row lead back to the mode they started from, through the
\* three other modes.
C19_ColorModeCycle ==
    [][ /\ res.crt_filters.color_channels \in ColorModes
        /\ res'.crt_filters.color_channels \in ColorModes
        /\ (IsTick /\ tick'.result = "continue" /\ ~Flag(tick'.seen, "reset_filters"))
             => /\ res'.crt_filters.color_channels
                     = IF JustPressed(tick'.seen, "next_color_representation_kind")
                       THEN CycleSuccessor(tick'.before.crt_filters.color_channels)
                       ELSE tick'.before.crt_filters.color_channels
                /\ { tick'.events[i].msg : i \in ColorModeMessages(tick'.events) }
                     = IF JustPressed(tick'.seen, "next_color_representation_kind")
                       THEN {res'.crt_filters.color_channels} ELSE {}
                /\ Cardinality(ColorModeMessages(tick'.events))
                     = IF JustPressed(tick'.seen, "next_color_representation_kind") THEN 1 ELSE 0
        /\ (tick.n = 0 /\ ~loop.host_done)
             => /\ { TapTimes(World, "next_color_representation_kind", n).res.crt_filters.color_channels
                       : n \in 1..3 } = ColorModes \ {res.crt_filters.color_channels}
                /\ TapTimes(World, "next_color_representation_kind", 4).res.crt_filters.color_channels
                     = res.crt_filters.color_channels ]_vars

C19_Witness ==
    /\ tick.n = 3 /\ tick.result = "continue"
    /\ JustPressed(tick.seen, "next_color_representation_kind")
    /\ tick.before.crt_filters.color_channels = "SplitVertical"
    /\ res.crt_filters.color_channels = "Combined"
    /\ Cardinality(ColorModeMessages(tick.events)) = 1

Clamped(x, lo, hi) == IF x < lo THEN lo ELSE IF x > hi THEN hi ELSE x

\* the parameters with a control active and an override of their own in this
\* input, each with its override value clamped to the parameter's range
ClampedOverrides(in) ==
    LET ev == in.custom_event
    IN  { o \in { <<"blur_passes", "event_kind:blur_level",
                    JustPressed(in, "increase_blur") \/ JustPressed(in, "decrease_blur"),
                    Clamped(ev.num, 0, 100)>>,
                  <<"lines_per_pixel", "event_kind:lines_per_pixel",
                    JustPressed(in, "increase_lpp") \/ JustPressed(in, "decrease_lpp"),
                    Clamped(ev.num, 1, 20)>>,
                  <<"extra_bright", "event_kind:pixel_brightness",
                    Flag(in, "increase_bright") \/ Flag(in, "decrease_bright"),
                    Clamped(ev.num * 10, -10, 10)>>,
                  <<"extra_contrast", "event_kind:pixel_contrast",
                    Flag(in, "increase_contrast") \/ Flag(in, "decrease_contrast"),
                    Clamped(ev.num * 10, 0, 200)>>,
                  <<"cur_pixel_width", "event_kind:pixel_width",
                    (Flag(in, "increase_pixel_gap") \/ Flag(in, "decrease_pixel_gap"))
                        /\ ~Flag(in, "shift"),
                    IF ev.num < 0 THEN 0 ELSE ev.num * PixelSizeUnits("cur_pixel_width")>> } :
            o[3] /\ ev.kind = o[2] /\ ev.is_number }

\* C20: a tick that sees a control of a parameter active together with an
\* override of that parameter ends with the parameter at the override value
\* clamped to the parameter's range.
C20_OverrideWins ==
    [][ (IsTick /\ tick'.result = "continue" /\ ~Flag(tick'.seen, "reset_filters"))
          => \A o \in ClampedOverrides(tick'.seen) : res'.crt_filters[o[1]] = o[4] ]_vars

\* C21: the camera zoom lies within the range change_zoom clamps to.
C21_ZoomInRange == res.camera.zoom >= 1 /\ res.camera.zoom <= 45

\* how many calls with this name the draw of a handler run made on frame f
\* (none when the run did not draw)
DrawnInTick(t, f, op) ==
    IF \E i \in DOMAIN t.calls : t.calls[i] = "draw"
    THEN Only({ Cardinality({ i \in DOMAIN calls : calls[i].op = op }) : calls \in {DrawCalls(f)} })
    ELSE 0

\* C22: a handler run whose update returned the continue signal reads the
\* pixels back and dispatches the screenshot, once each, when the screenshot
\* sample was true when the previous run tracked it and is false when this
\* run tracks it (the just-released edge of this run's update), and does
\* neither in any other run; so a press seen by a run and then released
\* gives one screenshot, in the run that sees the release.
C22_ScreenshotOnRelease ==
    [][ (IsTick /\ tick'.result = "continue")
          => LET released == tick.seen.button["screenshot"].input
                                /\ ~input.button["screenshot"].input
             IN  /\ JustReleased(tick'.seen, "screenshot") <=> released
                 /\ res'.launch_screenshot <=> released
                 /\ DrawnInTick(tick', frame', "dispatch_screenshot") = (IF released THEN 1 ELSE 0)
                 /\ DrawnInTick(tick', frame', "read_pixels") = (IF released THEN 1 ELSE 0) ]_vars

C22_Witness ==
    /\ tick.n = 2 /\ tick.result = "continue"
    /\ JustReleased(tick.seen, "screenshot")
    /\ DrawnInTick(tick, frame, "dispatch_screenshot") = 1
    /\ DrawnInTick(tick, frame, "read_pixels") = 1

\* the transient fields of Input hold nothing
TransientsCleared(in) ==
    /\ in.custom_event.kind = ""
    /\ in.mouse_scroll_y = 0
    /\ in.mouse_position_x = 0 /\ in.mouse_position_y = 0

\* C23: a handler run whose update returned the continue signal leaves the
\* custom event kind empty and the scroll and pointer deltas at zero; and
\* the update of a run sees exactly the custom event and the deltas the host
\* left in Input, so an event injected before a run is seen by that run's
\* update and, when it continued, by no later one.
C23_TransientsConsumed ==
    [][ IsTick =>
          /\ tick'.result = "continue" => TransientsCleared(input')
          /\ tick'.seen.custom_event = input.custom_event
          /\ tick'.seen.mouse_scroll_y = input.mouse_scroll_y
          /\ tick'.seen.mouse_position_x = input.mouse_position_x
          /\ tick'.seen.mouse_position_y = input.mouse_position_y
          /\ (tick.result = "continue" /\ ~loop.host_done) => TransientsCleared(tick'.seen) ]_vars

C23_Witness ==
    /\ tick.n = 2 /\ tick.result = "continue"
    /\ tick.before.camera.zoom = 60 /\ res.camera.zoom = 60
    /\ TransientsCleared(tick.seen) /\ TransientsCleared(input)

\* the last call was on_button_action with this action string
ButtonCall(button_action) ==
    last_call.fn = "on_button_action" /\ last_call.args[1] = button_action

\* on_button_action on each of two actions, the left one first
EachInTurn(n, m) ==
    on_button_action(on_button_action(last_call.before, <<n>>, last_call.args[2]),
                     <<m>>, last_call.args[2])

\* what the arm of "+" does: rotate_left = pressed unless a form field has the focus
RotateLeftBinding ==
    IF "input_focused" \in last_call.before THEN last_call.before
    ELSE SetField(last_call.before, "rotate_left", last_call.args[2])

\* C24 as stated: two bound actions joined by "+" give the Input that
\* on_button_action gives on the left one and then on the right one, for
\* every bound action, the binding "+" included; and the string "+" alone
\* is the rotate-left binding.
C24_CompositeOfAnyBound ==
    /\ (last_call.fn = "on_button_action" /\ Len(last_call.args[1]) = 3)
          => \A n, m \in BoundNames :
                ButtonCall(<<n>> \o <<"+">> \o <<m>>) => last_call.result = EachInTurn(n, m)
    /\ ButtonCall(<<"+">>) => last_call.result = RotateLeftBinding

\* C24: two bound actions that hold no "+" joined by "+" give the Input
\* that on_button_action gives on the left one and then on the right one
\* with the same pressed value; and the string "+" alone is the rotate-left
\* binding.
C24_CompositeIsSequence ==
    /\ (last_call.fn = "on_button_action" /\ Len(last_call.args[1]) = 3)
          => \A n, m \in BoundNames \ {"+"} :
                ButtonCall(<<n, "+", m>>) => last_call.result = EachInTurn(n, m)
    /\ ButtonCall(<<"+">>) => last_call.result = RotateLeftBinding

C24_Witness ==
    /\ ButtonCall(<<"shift", "+", "n">>) /\ last_call.args[2]
    /\ last_call.before = {"pixel_width.increase"}
    /\ last_call.result = {"shift", "pixel_gap.increase"}

\* C25: a call of on_button_action with an action string that has no
\* literal arm and holds no "+" returns the Input it was given, whether
\* pressed is true or false.
C25_UnknownActionIgnored ==
    (last_call.fn = "on_button_action"
        /\ ~IsBound(last_call.args[1]) /\ ~ContainsPlus(last_call.args[1]))
      => last_call.result = last_call.before

C25_Witness ==
    /\ ButtonCall(<<"blur-level-dec">>) /\ ~last_call.args[2]
    /\ last_call.before = {"shift", "pixel_gap.increase"}
    /\ last_call.result = last_call.before

\* the last call was get_3_f32color_from_int on this colour
ColorCall(color) == last_call.fn = "get_3_f32color_from_int" /\ last_call.args = <<color>>

\* C26: on a colour 0x00RRGGBB the function returns RR/255, GG/255 and
\* BB/255, that is, its three channels (kept as their numerators over 255)
\* are bytes and are the RR, GG and BB the colour is made of; white, black,
\* red, green and blue give [1,1,1], [0,0,0], [1,0,0], [0,1,0] and [0,0,1].
C26_ColorDecode ==
    /\ (last_call.fn = "get_3_f32color_from_int"
            /\ last_call.args[1] >= 0 /\ last_call.args[1] <= 16777215)
          => /\ \A i \in 1..3 : last_call.result[i] \in 0..255
             /\ ColorInt(last_call.result[1], last_call.result[2], last_call.result[3])
                   = last_call.args[1]
    /\ ColorCall(16777215) => last_call.result = <<255, 255, 255>>
    /\ ColorCall(0) => last_call.result = <<0, 0, 0>>
    /\ ColorCall(16711680) => last_call.result = <<255, 0, 0>>
    /\ ColorCall(65280) => last_call.result = <<0, 255, 0>>
    /\ ColorCall(255) => last_call.result = <<0, 0, 255>>

C26_Witness ==
    /\ ColorCall(ColorInt(235, 241, 20))
    /\ last_call.result = <<235, 241, 20>>

ForegroundDraws == Cardinality(ChannelDraws(Len(frame.calls)))

\* C28: a complete draw of simulation_program.rs with the diffuse foreground
\* shown has issued lines_per_pixel x color_splits foreground pixel draws,
\* color_splits being 1 in Combined mode and 3 in every other mode; with the
\* foreground hidden it has issued no foreground pixel draw and no RGB
\* recombination.
C28_ForegroundDrawCount ==
    (dpc = Len(frame.calls) + 1 /\ dpc > 1 /\ frame.drawer = "draw")
    => IF frame.showing_diffuse_foreground
       THEN ForegroundDraws
              = frame.lines_per_pixel * (IF frame.color_channels = "Combined" THEN 1 ELSE 3)
       ELSE ForegroundDraws = 0 /\ CallsOf("rgb_render") = {}

\* a complete draw with two lines per pixel in a split mode has issued six
\* foreground pixel draws
C28_Witness ==
    /\ dpc = Len(frame.calls) + 1 /\ dpc > 1 /\ frame.drawer = "draw"
    /\ frame.showing_diffuse_foreground /\ frame.color_channels = "SplitHorizontal"
    /\ frame.lines_per_pixel = 2 /\ ForegroundDraws = 6

\* the frame delay has elapsed when this update samples the clock
FrameDue(a, in) == in.now >= a.last_frame_change + a.frame_length

\* the animation of a handler run that ran its update: before it, after it
AnimationStepped(t, P(_, _, _)) ==
    t.result \in {"continue", "terminate"}
        => P(t.before.animation, t.settled.animation, FrameDue(t.before.animation, t.seen))

\* C29 as the spec has it: when the frame delay has elapsed the index
\* advances by one, wrapping to 0 after the last step, and the reload flag is
\* set; otherwise the index is unchanged and the flag is clear.
AdvancedAndFlagged(a, b, due) ==
    IF due THEN b.current_frame = (a.current_frame + 1) % a.steps_len
                /\ b.needs_buffer_data_load
    ELSE b.current_frame = a.current_frame /\ ~b.needs_buffer_data_load

C29_AdvanceAlwaysReloads == [][IsTick => AnimationStepped(tick', AdvancedAndFlagged)]_vars

\* C29: when the frame delay has elapsed the index advances by one, wrapping
\* to 0 after the last step, and the reload flag is set exactly when the
\* index changed (it stays clear on a one-step animation, whose index wraps
\* from 0 to 0); otherwise the index is unchanged and the flag is clear; the
\* index is always below the number of steps.
AdvancedAndFlaggedOnChange(a, b, due) ==
    /\ IF due THEN b.current_frame = (a.current_frame + 1) % a.steps_len
                   /\ (b.needs_buffer_data_load <=> a.steps_len > 1)
       ELSE b.current_frame = a.current_frame /\ ~b.needs_buffer_data_load
    /\ b.current_frame < b.steps_len /\ b.steps_len = a.steps_len

C29_AdvanceReloadsOnChange ==
    [][IsTick => AnimationStepped(tick', AdvancedAndFlaggedOnChange)]_vars

\* the second run of a two-step animation finds the delay elapsed, moves to
\* step 1 and flags the reload
C29_Witness ==
    /\ tick.n = 2 /\ tick.result = "continue"
    /\ tick.before.animation.steps_len = 2 /\ tick.before.animation.current_frame = 0
    /\ FrameDue(tick.before.animation, tick.seen)
    /\ tick.settled.animation.current_frame = 1
    /\ tick.settled.animation.needs_buffer_data_load

\* the accumulator of a completed handler run: 0 when the wave is off, and
\* not decreased when the wave was on before the run and is on after it
PulseAccumulated(t) ==
    LET b == t.before.crt_filters
        a == t.settled.crt_filters
    IN  t.result = "continue"
        => /\ ~a.showing_pixels_pulse => a.pixels_pulse = 0
           /\ (b.showing_pixels_pulse /\ a.showing_pixels_pulse)
                 => a.pixels_pulse >= b.pixels_pulse

\* the wave toggle differs before and after this handler run
PulseFlipped(t) ==
    t.before.crt_filters.showing_pixels_pulse # t.settled.crt_filters.showing_pixels_pulse

\* C30 as the spec has it: after every completed run the accumulator is 0
\* when the wave toggle is off and has not decreased while the toggle stays
\* on; the toggle flips only on a just-pressed edge of its button.
C30_PulseFlipsOnlyOnEdge ==
    [][ IsTick =>
          /\ PulseAccumulated(tick')
          /\ PulseFlipped(tick') => JustPressed(tick'.seen, "showing_pixels_pulse") ]_vars

\* C30: after every completed run the accumulator is 0 when the wave toggle
\* is off and has not decreased while the toggle stays on; the toggle flips
\* only on a just-pressed edge of its button or when the filter reset turns
\* it off, and a completed run without the filter reset flips it exactly
\* when it sees the edge, so once per press.
C30_PulseFlipsOnEdgeOrReset ==
    [][ IsTick =>
          /\ PulseAccumulated(tick')
          /\ PulseFlipped(tick')
                => \/ JustPressed(tick'.seen, "showing_pixels_pulse")
                   \/ Flag(tick'.seen, "reset_filters")
                        /\ ~tick'.settled.crt_filters.showing_pixels_pulse
          /\ (tick'.result = "continue" /\ ~Flag(tick'.seen, "reset_filters"))
                => (PulseFlipped(tick') <=> JustPressed(tick'.seen, "showing_pixels_pulse"))
          /\ JustPressed(tick'.seen, "showing_pixels_pulse")
                <=> (~tick.seen.button["showing_pixels_pulse"].input
                        /\ input.button["showing_pixels_pulse"].input) ]_vars

\* the wave is switched on by a press in the first run and, the button still
\* held, stays on in the second, where the accumulator grows
C30_Witness ==
    /\ tick.n = 2 /\ tick.result = "continue"
    /\ tick.seen.button["showing_pixels_pulse"].input
    /\ ~JustPressed(tick.seen, "showing_pixels_pulse")
    /\ tick.before.crt_filters.showing_pixels_pulse
    /\ tick.settled.crt_filters.showing_pixels_pulse
    /\ tick.before.crt_filters.pixels_pulse = 1
    /\ tick.settled.crt_filters.pixels_pulse = 2

\* the five layering kinds in the order the key steps through them
LayeringCycle ==
    << "ShadowOnly", "SolidOnly", "ShadowWithSolidBackground75",
       "ShadowWithSolidBackground50", "ShadowWithSolidBackground25" >>

LayeringKinds == { LayeringCycle[i] : i \in DOMAIN LayeringCycle }

\* the kind after this one, the first following the last
LayeringSuccessor(k) ==
    Only({ LayeringCycle[(i % 5) + 1] : i \in { j \in DOMAIN LayeringCycle : LayeringCycle[j] = k } })

\* the shown-layer flags and the solid weight (in hundredths) agree with the kind
LayersMatch(f) ==
    /\ f.layering_kind \in LayeringKinds
    /\ f.showing_diffuse_foreground <=> f.layering_kind # "SolidOnly"
    /\ f.showing_solid_background <=> f.layering_kind # "ShadowOnly"
    /\ f.layering_kind = "SolidOnly" => f.solid_color_weight = 100
    /\ f.layering_kind = "ShadowWithSolidBackground75" => f.solid_color_weight = 75
    /\ f.layering_kind = "ShadowWithSolidBackground50" => f.solid_color_weight = 50
    /\ f.layering_kind = "ShadowWithSolidBackground25" => f.solid_color_weight = 25
    /\ f.showing_diffuse_foreground \/ f.showing_solid_background

\* C31: a completed tick (without the filter reset) that sees the layering
\* key just pressed with no text input focused moves the layering kind to
\* the next of the five variants, the first following the last; afterwards
\* the shown-layer flags and the solid weight match the variant and at least
\* one layer is shown; five presses in a row lead back to the starting kind
\* through the four others, the flags matching after each.
C31_LayeringCycle ==
    [][ /\ (IsTick /\ tick'.result = "continue" /\ ~Flag(tick'.seen, "reset_filters")
               /\ ~Flag(tick'.seen, "input_focused")
               /\ JustPressed(tick'.seen, "next_layering_kind"))
             => /\ tick'.settled.crt_filters.layering_kind
                     = LayeringSuccessor(tick'.before.crt_filters.layering_kind)
                /\ LayersMatch(tick'.settled.crt_filters)
        /\ (tick.n = 0 /\ ~loop.host_done)
             => /\ \A n \in 1..5 :
                      LayersMatch(TapTimes(World, "next_layering_kind", n).res.crt_filters)
                /\ { TapTimes(World, "next_layering_kind", n).res.crt_filters.layering_kind
                       : n \in 1..4 } = LayeringKinds \ {res.crt_filters.layering_kind}
                /\ TapTimes(World, "next_layering_kind", 5).res.crt_filters.layering_kind
                     = res.crt_filters.layering_kind ]_vars

\* a press on the last kind wraps to Shadow only: the solid layer goes away
C31_Witness ==
    /\ tick.n = 1 /\ tick.result = "continue"
    /\ JustPressed(tick.seen, "next_layering_kind") /\ ~Flag(tick.seen, "input_focused")
    /\ tick.before.crt_filters.layering_kind = "ShadowWithSolidBackground25"
    /\ res.crt_filters.layering_kind = "ShadowOnly"
    /\ res.crt_filters.showing_diffuse_foreground
    /\ ~res.crt_filters.showing_solid_background

\* the last call cycled an enum
EnumCall == last_call.fn \in {"next_enum_variant", "previous_enum_variant"}

\* the other direction
Opposite(fn) == IF fn = "next_enum_variant" THEN "previous_enum_variant" ELSE "next_enum_variant"

\* next then previous, and previous then next, give back the variant; next
\* goes from the last variant to the first and previous from the first to the
\* last
EnumRoundTrip ==
    EnumCall
    => LET len == last_call.args[1]
           u == last_call.args[2]
           v == last_call.result.variant
       IN  /\ v \in 0..(len - 1)
           /\ change_enum_variant(len, v, Opposite(last_call.fn)).variant = u
           /\ (last_call.fn = "next_enum_variant")
                 => v = IF u = len - 1 THEN 0 ELSE u + 1
           /\ (last_call.fn = "previous_enum_variant")
                 => v = IF u = 0 THEN len - 1 ELSE u - 1

\* C32: next_enum_variant followed by previous_enum_variant, and previous
\* followed by next, return the original variant; next wraps from the last
\* variant to the first and previous from the first to the last; and every
\* index handed to the enum decoder is in 0..n-1, so no decode fails.
C32_CyclingNeverMisdecodes ==
    /\ EnumRoundTrip
    /\ EnumCall => \A i \in DOMAIN last_call.result.decoded :
                      last_call.result.decoded[i] \in 0..(last_call.args[1] - 1)

\* C33: every call of calculate_far_away_position returns, a viewport of
\* width or height 0 and a pixel wider than the viewport included.
C33_FarAwayPositionReturns ==
    last_call.fn = "calculate_far_away_position" => last_call.result.returns

\* the speed-change and pixel-size fields of Input
SpeedFields ==
    { "translation_speed.increase.input", "translation_speed.decrease.input",
      "filter_speed.increase.input", "filter_speed.decrease.input" }

PixelWidthFields == {"pixel_width.increase", "pixel_width.decrease"}

PixelGapFields == {"pixel_gap.increase", "pixel_gap.decrease"}

PixelSizeFields ==
    PixelWidthFields \cup PixelGapFields
        \cup { "pixel_scale_x.increase", "pixel_scale_x.decrease",
               "pixel_scale_y.increase", "pixel_scale_y.decrease" }

\* C34: once every pressed action has been released, no speed-change and no
\* pixel-size field of Input is set, in whatever order shift and the other
\* keys were pressed and released.
C34_ReleasedKeysLeaveNothingSet ==
    (last_call.fn = "on_button_action" /\ last_call.down = {})
        => last_call.held \cap (SpeedFields \cup PixelSizeFields) = {}

\* C35: after any sequence of button actions, both pixel-width fields are
\* false while shift is held and both pixel-spread fields are false while
\* shift is not held, so the two groups are never active together.
C35_WidthAndSpreadExclusive ==
    /\ "shift" \in last_call.held => last_call.held \cap PixelWidthFields = {}
    /\ "shift" \notin last_call.held => last_call.held \cap PixelGapFields = {}
    /\ last_call.held \cap PixelWidthFields = {} \/ last_call.held \cap PixelGapFields = {}

\* shift is pressed while the width key is held: the width field is cleared,
\* and the same key then drives the spread
C35_Witness ==
    /\ last_call.n = 3 /\ last_call.fn = "on_button_action"
    /\ last_call.args = << <<"n">>, TRUE >>
    /\ last_call.down = { <<"n">>, <<"shift">> }
    /\ last_call.before = {"shift"}
    /\ last_call.held = {"shift", "pixel_gap.increase"}

\* the parameters with named '-inc' / '-dec' actions: the two action names
\* and the increase and decrease fields of the parameter, without shift
IncDecNames ==
    { <<"feature-change-move-speed-inc", "feature-change-move-speed-dec",
        "translation_speed.increase.input", "translation_speed.decrease.input">>,
      <<"feature-change-pixel-speed-inc", "feature-change-pixel-speed-dec",
        "filter_speed.increase.input", "filter_speed.decrease.input">>,
      <<"camera-zoom-inc", "camera-zoom-dec", "camera_zoom.increase", "camera_zoom.decrease">>,
      <<"pixel-vertical-gap-inc", "pixel-vertical-gap-dec",
        "pixel_scale_x.increase", "pixel_scale_x.decrease">>,
      <<"pixel-horizontal-gap-inc", "pixel-horizontal-gap-dec",
        "pixel_scale_y.increase", "pixel_scale_y.decrease">>,
      <<"pixel-width-inc", "pixel-width-dec", "pixel_width.increase", "pixel_width.decrease">>,
      <<"blur-level-inc", "blur-level-dec", "blur.increase.input", "blur.decrease.input">>,
      <<"pixel-contrast-inc", "pixel-contrast-dec", "contrast.increase", "contrast.decrease">>,
      <<"pixel-brightness-inc", "pixel-brightness-dec", "bright.increase", "bright.decrease">>,
      <<"lines-per-pixel-inc", "lines-per-pixel-dec", "lpp.increase.input", "lpp.decrease.input">> }

\* C36: when a '<name>-inc' action has just set the increase field of its
\* parameter, a call of the '<name>-dec' action sets the decrease field of
\* the same parameter; and a call of 'blur-level-dec' sets the blur decrease
\* field.
C36_EveryIncHasItsDec ==
    /\ \A p \in IncDecNames :
          (ButtonCall(<<p[1]>>) /\ last_call.args[2] /\ p[3] \in last_call.result)
              => p[4] \in on_button_action(last_call.result, <<p[2]>>, TRUE)
    /\ (ButtonCall(<<"blur-level-dec">>) /\ last_call.args[2])
          => "blur.decrease.input" \in last_call.result

\* how many of these notifications a handler run dispatched
PointerLockCount(t, id) == CountId(t.events, id)

\* requests and releases alternate, a request first
Alternating(pointer) ==
    \A i \in DOMAIN pointer :
        pointer[i].id = IF i % 2 = 1 THEN "app-event.request_pointer_lock"
                        ELSE "app-event.exit_pointer_lock"

DrawsOfChannel(c) == { d \in ChannelDraws(Len(frame.calls)) : frame.calls[d].i = c }

\* the pooled targets, by depth on the main stack, that the draws of colour
\* channel c write to
ChannelLayer(c) == { BoundDepthAt(d) : d \in DrawsOfChannel(c) }

\* the clears of the foreground pass (up to the RGB recombination) issued
\* while the main-stack target at this depth is bound
LayerClears(depth) ==
    { k \in CallsOf("clear") : /\ \E r \in CallsOf("rgb_render") : k < r
                                /\ BoundDepthAt(k) = depth }

C38_WitnessDraw ==
    /\ dpc = Len(frame.calls) + 1 /\ dpc > 1 /\ frame.color_channels = "Overlapping"
    /\ frame.drawer = "draw" /\ frame.lines_per_pixel = 2
    /\ Cardinality(DrawsOfChannel(0)) = 2

\* the most targets a draw in this colour mode may hold on the main stack
DepthBound(f) == IF f.color_channels = "Overlapping" THEN 5 ELSE 3

\* C39: at every call of every draw the main buffer stack holds at most 5
\* targets, at most 3 when the colour mode is not Overlapping, whatever the
\* lines-per-pixel counts and however many frames were drawn before; the
\* pool has never more than 5 targets, and it grows only while it is smaller
\* than the bound of the colour mode being drawn.
C39_MainStackBounded ==
    [][ /\ dpc' > 0 => stack'.cursor <= DepthBound(frame')
        /\ stack'.pool <= 5
        /\ stack'.pool > stack.pool
              => /\ stack'.pool <= DepthBound(frame)
                 /\ stack'.pool = stack'.cursor ]_vars

\* the second frame, Overlapping with four line groups, holds five targets
\* on a pool that the first frame had already filled
C39_Witness ==
    /\ dpc > 1 /\ loop.frames = 2 /\ frame.color_channels = "Overlapping"
    /\ LineGroups = 4 /\ ChannelDraws(dpc - 1) # {}
    /\ Cardinality({ d \in ChannelDraws(dpc - 1) : frame.calls[d].i = 2 }) = 4
    /\ stack.cursor = 5 /\ stack.pool = 5 /\ stack.pushes > 5

\* a frame in a split mode holds three targets
C39_WitnessSplit ==
    /\ dpc > 1 /\ loop.frames = 2 /\ frame.color_channels = "SplitVertical"
    /\ frame.lines_per_pixel = 2 /\ stack.cursor = 3 /\ stack.pool = 3

====
